---- MODULE Spec2Model ----
(***************************************************************************)
(* photo-scanner-rs: the ingestion pipeline (EmbeddingsService), the       *)
(* description pipeline (DescriptionService), the query entry point, the   *)
(* result-list utilities (sort_by_score, limit_results), the skip policy   *)
(* (can_be_skipped) and the in-memory vector store double (VectorDBMock).   *)
(*                                                                         *)
(* Text is a sequence of one-character strings, so that substring search   *)
(* (str::contains) and the word-boundary regex of can_be_skipped are       *)
(* computed character by character.                                        *)
(***************************************************************************)
EXTENDS Integers, Sequences, FiniteSets, TLC

\* ------------------------------------------------------------------ bounds
\* number of pieces a description of the skip-policy harness is built from
MaxPieces == 2
\* longest result list handed to sort_by_score / limit_results
MaxResults == 4
\* largest numeric score and threshold (scores are 0..MaxScore)
MaxScore == 3
\* files found by the scan of one session
NFiles == 3
\* runs of a service within one session
MaxRuns == 2
\* operations applied to the vector store double
MaxStoreOps == 4
\* distinct point ids used against the vector store double
MaxIds == 2
\* entries (files, directories, directory links) created under a scanned root
MaxEntries == 3
\* links the system follows while it resolves one path (ELOOP beyond that)
MaxSymlinks == 1
\* files an entry point finds under its root
MaxCliFiles == 2
\* longest argument vector an entry point is started with (program name included)
MaxArgs == 3

\* files the stream of main.rs yields
MaxMainFiles == 3

\* --------------------------------------------------------- program constants
\* embeddings.rs:17 and descriptions.rs:17
MAX_CONCURRENT_TASKS == 2
\* embeddings.rs:18
COLLECTION_NAME == "photos"
\* embeddings.rs:19
DROP_COLLECTION == FALSE

\* ---------------------------------------------------------------------- text
None == <<"None">>
Some(x) == <<"Some", x>>
IsSome(o) == o[1] = "Some"
Unwrap(o) == o[2]

UpperLetters == <<"A","B","C","D","E","F","G","H","I","J","K","L","M",
                  "N","O","P","Q","R","S","T","U","V","W","X","Y","Z">>
LowerLetters == <<"a","b","c","d","e","f","g","h","i","j","k","l","m",
                  "n","o","p","q","r","s","t","u","v","w","x","y","z">>
Digits == {"0","1","2","3","4","5","6","7","8","9"}

\* (?i): simple case folding of one character
ToLower(c) ==
    IF \E i \in 1..26 : UpperLetters[i] = c
    THEN LowerLetters[CHOOSE i \in 1..26 : UpperLetters[i] = c]
    ELSE c

\* regex \w restricted to the characters of the model
IsWordChar(c) ==
    \/ \E i \in 1..26 : UpperLetters[i] = c \/ LowerLetters[i] = c
    \/ c \in Digits
    \/ c = "_"

\* is position p of s (1-based) inside s and a word character
WordAt(s, p) == p >= 1 /\ p <= Len(s) /\ IsWordChar(s[p])

\* regex \b between positions p and p+1 of s (p = 0 and p = Len(s) are the ends)
WordBoundary(s, p) == WordAt(s, p) # WordAt(s, p + 1)

\* the alternation of the pattern in can_be_skipped
Keywords == { <<"i","m","a","g","e">>,
              <<"p","h","o","t","o">>,
              <<"p","i","c","t","u","r","e">>,
              <<"p","h","o","t","o","g","r","a","p","h">> }

\* does keyword k match s at position i, ignoring case
KeywordAt(s, i, k) ==
    /\ i + Len(k) - 1 <= Len(s)
    /\ \A j \in 1..Len(k) : ToLower(s[i + j - 1]) = k[j]

\* a variant that requires exact case
KeywordAtCaseSensitive(s, i, k) ==
    /\ i + Len(k) - 1 <= Len(s)
    /\ \A j \in 1..Len(k) : s[i + j - 1] = k[j]

\* Regex::new(r"(?i)\b(image|photo|picture|photograph)\b").is_match(s)
ReIsMatchNoBoundary(s) ==
    \E i \in 1..Len(s) : \E k \in Keywords : KeywordAt(s, i, k)

ReIsMatch(s) ==
    \E i \in 1..Len(s) : \E k \in Keywords :
        /\ KeywordAt(s, i, k)
        /\ WordBoundary(s, i - 1)
        /\ WordBoundary(s, i + Len(k) - 1)

\* a policy that skips no file
can_be_skipped_never(description) == FALSE

\* can_be_skipped(description, path)
can_be_skipped(description) ==
    IF IsSome(description)
    THEN IF ReIsMatch(Unwrap(description)) THEN FALSE ELSE TRUE
    ELSE FALSE

\* str::contains: needle occurs in hay as a contiguous substring
Contains(hay, needle) ==
    \E i \in 0..(Len(hay) - Len(needle)) :
        \A j \in 1..Len(needle) : hay[i + j] = needle[j]

\* ------------------------------------------------------------ result lists
\* f32 values: 0..MaxScore and NaN
NaN == -1
F32 == {NaN} \cup (0..MaxScore)

\* f32::partial_cmp
F32PartialCmp(a, b) ==
    IF a = NaN \/ b = NaN THEN "None"
    ELSE IF a < b THEN "Less"
    ELSE IF a > b THEN "Greater"
    ELSE "Equal"

\* Option<f32>::partial_cmp (derived ordering: None is less than any Some)
OptionPartialCmp(x, y) ==
    IF ~IsSome(x) /\ ~IsSome(y) THEN "Equal"
    ELSE IF ~IsSome(x) THEN "Less"
    ELSE IF ~IsSome(y) THEN "Greater"
    ELSE F32PartialCmp(Unwrap(x), Unwrap(y))

\* the closure of sort_by_score with the operands in the wrong order
CompareAscending(a, b) == OptionPartialCmp(a.score, b.score)

\* the closure of sort_by_score: |a, b| b.score.partial_cmp(&a.score);
\* "None" is the case in which expect() panics
Compare(a, b) == OptionPartialCmp(b.score, a.score)

\* slice::sort_by is stable; insertion of x into the sorted prefix pre,
\* moving x before every element it is less than
RECURSIVE InsertTail(_, _)
InsertTail(pre, x) ==
    IF pre = <<>> THEN [panic |-> FALSE, list |-> <<x>>]
    ELSE LET last == pre[Len(pre)]
             c == Compare(x, last)
         IN  IF c = "None" THEN [panic |-> TRUE, list |-> <<>>]
             ELSE IF c = "Less"
             THEN LET r == InsertTail(SubSeq(pre, 1, Len(pre) - 1), x)
                  IN  IF r.panic THEN r
                      ELSE [panic |-> FALSE, list |-> Append(r.list, last)]
             ELSE [panic |-> FALSE, list |-> Append(pre, x)]

RECURSIVE SortPrefix(_, _)
SortPrefix(list, n) ==
    IF n = 0 THEN [panic |-> FALSE, list |-> <<>>]
    ELSE LET p == SortPrefix(list, n - 1)
         IN  IF p.panic THEN p ELSE InsertTail(p.list, list[n])

\* VectorOutputListUtils::sort_by_score; panic = TRUE when expect() fails
sort_by_score(list) == SortPrefix(list, Len(list))

\* s > score on f32 (false when either side is NaN)
F32Gt(s, t) == s # NaN /\ t # NaN /\ s > t

\* limit_results that keeps the results without score
limit_results_keep_none(list, t) ==
    SelectSeq(list, LAMBDA o : IF IsSome(o.score) THEN F32Gt(Unwrap(o.score), t) ELSE TRUE)

\* VectorOutputListUtils::limit_results
limit_results(list, t) ==
    SelectSeq(list, LAMBDA o : IF IsSome(o.score) THEN F32Gt(Unwrap(o.score), t) ELSE FALSE)

\* ----------------------------------------------------- vector store double
\* store_embeddings: collection name -> None (no such key) or Some(Vec<VectorInput>)
Names == {COLLECTION_NAME, "test"}

EmptyStore == [n \in Names |-> None]

\* VectorDBMock::create_collection
create_collection(st, name) ==
    IF IsSome(st[name]) THEN st ELSE [st EXCEPT ![name] = Some(<<>>)]

\* VectorDBMock::delete_collection
delete_collection(st, name) == [st EXCEPT ![name] = None]

\* Vec::retain(|entry| entry.id != id)
Retain(points, id) == SelectSeq(points, LAMBDA e : e.id # id)

\* the body of the for_each of upsert_points without the removal
UpsertOneNoRetain(points, input) == Append(points, input)

\* the body of the for_each of upsert_points for one input
UpsertOne(points, input) == Append(Retain(points, input.id), input)

RECURSIVE UpsertAll(_, _)
UpsertAll(points, inputs) ==
    IF inputs = <<>> THEN points
    ELSE UpsertAll(UpsertOne(points, inputs[1]), Tail(inputs))

\* VectorDBMock::upsert_points on an existing collection
upsert_points(st, name, inputs) ==
    [st EXCEPT ![name] = Some(UpsertAll(Unwrap(st[name]), inputs))]

\* a conversion that leaves out the inputs that do not convert
ConvertAllLenient(inputs, bad) ==
    LET good == { i \in 1..Len(inputs) : i \notin bad }
        nth(k) == CHOOSE i \in good : Cardinality({ j \in good : j < i }) = k - 1
    IN  Some([k \in 1..Cardinality(good) |-> inputs[nth(k)]])

\* inputs.iter().map(.. Payload::try_from(json!(i.payload)) ..).collect()
\* into a Result (qdrant.rs:60-70): the inputs at the positions in bad do
\* not convert, and one of them makes the whole conversion fail
ConvertAll(inputs, bad) ==
    IF \E i \in 1..Len(inputs) : i \in bad THEN None ELSE Some(inputs)

\* an adapter whose request is applied although it reports an error
qdrant_upsert_points_applied(st, name, inputs, bad, remoteOk) ==
    IF ~IsSome(st[name]) THEN [result |-> "Err", store |-> st]
    ELSE [result |-> IF bad = {} /\ remoteOk THEN "Ok" ELSE "Err",
          store |-> upsert_points(st, name, inputs)]

\* QdrantClient::upsert_points (qdrant.rs:59-78): the points are converted,
\* then sent in one request, which the engine applies as a whole (a point
\* replaces the one of the same id) or rejects
qdrant_upsert_points(st, name, inputs, bad, remoteOk) ==
    LET points == ConvertAll(inputs, bad)
    IN  IF ~IsSome(points) THEN [result |-> "Err", store |-> st]
        ELSE IF ~remoteOk \/ ~IsSome(st[name]) THEN [result |-> "Err", store |-> st]
        ELSE [result |-> "Ok", store |-> upsert_points(st, name, Unwrap(points))]

\* VectorDBMock::find_by_id on an existing collection:
\* the first entry with the id, as VectorOutput without score
find_by_id(st, name, id) ==
    LET points == Unwrap(st[name])
        hits == { i \in 1..Len(points) : points[i].id = id }
    IN  IF hits = {} THEN None
        ELSE LET i == CHOOSE i \in hits : \A j \in hits : i <= j
             IN  Some([id |-> points[i].id, score |-> None,
                       payload |-> points[i].payload])

\* ------------------------------------------------------------- the scanner
\* A directory tree is a sequence of entries; entry e lies in directory
\* t[e].parent (0 is the scanned root, otherwise the number of a directory
\* entry). A "link" is a symbolic link to the directory t[e].target.
\* A path below the root is the sequence of the entries it goes through.
File(parent, name) == [parent |-> parent, kind |-> "file", name |-> name, target |-> 0]
Dir(parent, name) == [parent |-> parent, kind |-> "dir", name |-> name, target |-> 0]
Link(parent, name, target) ==
    [parent |-> parent, kind |-> "link", name |-> name, target |-> target]

\* what makes the scan fail: read_dir(path)? on a directory (file_utils.rs:8)
\* or entry? on one entry of a directory (file_utils.rs:9)
DirFault(d) == [kind |-> "dir", id |-> d]
EntryFault(e) == [kind |-> "entry", id |-> e]

\* position of the last "." of a name, 0 when there is none
LastDot(name) ==
    LET dots == { i \in 1..Len(name) : name[i] = "." }
    IN  IF dots = {} THEN 0 ELSE CHOOSE i \in dots : \A j \in dots : j <= i

\* Path::extension: the part after the last "." of the file name; None when
\* there is no "." or the only "." is the first character
Extension(name) ==
    LET d == LastDot(name)
    IN  IF d <= 1 THEN None ELSE Some(SubSeq(name, d + 1, Len(name)))

\* str::to_ascii_lowercase
to_ascii_lowercase(s) == [i \in 1..Len(s) |-> ToLower(s[i])]

\* the extensions matches!() accepts
JpegExtensions == { <<"j","p","g">>, <<"j","p","e","g">> }

\* is_jpeg that compares the extension as it is written
is_jpeg_exact_case(name) ==
    LET ext == Extension(name)
    IN  IF IsSome(ext) THEN Unwrap(ext) \in JpegExtensions ELSE FALSE

\* is_jpeg (file_utils.rs:24-29) on the file name of a path
is_jpeg(name) ==
    LET ext == Extension(name)
    IN  IF IsSome(ext) THEN to_ascii_lowercase(Unwrap(ext)) \in JpegExtensions
        ELSE FALSE

\* the directory the entry e stands for
Resolve(t, e) == IF t[e].kind = "link" THEN t[e].target ELSE e

\* number of links on a path
LinksIn(t, path) == Cardinality({ i \in 1..Len(path) : t[path[i]].kind = "link" })

\* a system that follows any number of links on a path
is_dir_unlimited(t, path) == t[path[Len(path)]].kind \in {"dir", "link"}

\* Path::is_dir: follows links; false when the path cannot be resolved
\* because it goes through more links than the system follows
is_dir(t, path) ==
    LET e == path[Len(path)]
    IN  \/ t[e].kind = "dir"
        \/ t[e].kind = "link" /\ LinksIn(t, path) <= MaxSymlinks

\* the entries of directory d, in the order read_dir yields them
RECURSIVE EntriesFrom(_, _, _)
EntriesFrom(t, d, e) ==
    IF e > Len(t) THEN <<>>
    ELSE IF t[e].parent = d THEN <<e>> \o EntriesFrom(t, d, e + 1)
    ELSE EntriesFrom(t, d, e + 1)
read_dir(t, d) == EntriesFrom(t, d, 1)

ScanErr == [err |-> TRUE, files |-> <<>>]

\* a scan that leaves out what it cannot read
RECURSIVE list_dir_lenient(_, _, _, _)
RECURSIVE list_entries_lenient(_, _, _, _, _)
list_dir_lenient(t, fault, d, prefix) ==
    IF fault = Some(DirFault(d)) THEN [err |-> FALSE, files |-> <<>>]
    ELSE list_entries_lenient(t, fault, prefix, read_dir(t, d), <<>>)
list_entries_lenient(t, fault, prefix, entries, files) ==
    IF entries = <<>> THEN [err |-> FALSE, files |-> files]
    ELSE LET e == Head(entries)
             path == Append(prefix, e)
         IN  IF fault = Some(EntryFault(e))
             THEN list_entries_lenient(t, fault, prefix, Tail(entries), files)
             ELSE IF is_dir(t, path)
             THEN list_entries_lenient(t, fault, prefix, Tail(entries),
                      files \o list_dir_lenient(t, fault, Resolve(t, e), path).files)
             ELSE IF is_jpeg(t[e].name)
             THEN list_entries_lenient(t, fault, prefix, Tail(entries),
                                       Append(files, path))
             ELSE list_entries_lenient(t, fault, prefix, Tail(entries), files)
list_jpeg_files_lenient(t, fault) == list_dir_lenient(t, fault, 0, <<>>)

\* list_jpeg_files (file_utils.rs:6-21) on the directory d reached by the
\* path prefix; the loop over the entries returns at the first error
RECURSIVE list_dir(_, _, _, _)
RECURSIVE list_entries(_, _, _, _, _)
list_dir(t, fault, d, prefix) ==
    IF fault = Some(DirFault(d)) THEN ScanErr
    ELSE list_entries(t, fault, prefix, read_dir(t, d), <<>>)
list_entries(t, fault, prefix, entries, files) ==
    IF entries = <<>> THEN [err |-> FALSE, files |-> files]
    ELSE LET e == Head(entries)
             path == Append(prefix, e)
         IN  IF fault = Some(EntryFault(e)) THEN ScanErr
             ELSE IF is_dir(t, path)
             THEN LET r == list_dir(t, fault, Resolve(t, e), path)
                  IN  IF r.err THEN ScanErr
                      ELSE list_entries(t, fault, prefix, Tail(entries),
                                        files \o r.files)
             ELSE IF is_jpeg(t[e].name)
             THEN list_entries(t, fault, prefix, Tail(entries), Append(files, path))
             ELSE list_entries(t, fault, prefix, Tail(entries), files)

\* list_jpeg_files(root)
list_jpeg_files(t, fault) == list_dir(t, fault, 0, <<>>)

\* ------------------------------------------------------------------ state
VARIABLES
    \* --- a session: runs of one service over one corpus
    service,      \* "embeddings" (EmbeddingsService) or "descriptions" (DescriptionService)
    xmp,          \* file -> stored description (Option<String>), the metadata store
    rootNameless, \* the root has no final name ("/" or "."); file 1 lies directly in it
    store,        \* the vector store: collection name -> Option<Vec<VectorInput>>
    run,          \* number of the current run of generate, 0 before the first
    phase,        \* "idle", "running", "returned" or "crashed" (panic)
    result,       \* what generate returned: "none", "Ok" or "Err"
    queue,        \* iter(files_list): the files not yet handed to a task
    pc,           \* file -> position of its task
    tdesc,        \* file -> the description its task read (ingestion) or got
                  \* from the model (description run)
    temb,         \* file -> the embedding its task received
    calls,        \* file -> the collaborator calls made for it in the current run
    outcome,      \* file -> what process_path returned: "none", "Ok" or "Err"
    progress,     \* progress_bar.position()
    failed,       \* a collaborator call of the current run returned an error
    prev,         \* the run before the current one: how it ended, whether one of
                  \* its calls failed, whether a description was changed after it,
                  \* whether it wrote a description
    snapshot,     \* the store when the current run began
    xmpBefore,    \* the stored descriptions when the current run began
    edited,       \* a stored description was changed since the last run ended
    \* --- the directory tree under the root and its scan
    tree,         \* the entries below the root
    fault,        \* the directory or entry that cannot be read, if any
    listed,       \* what list_jpeg_files returned, None before the scan
    stack,        \* the calls of list_jpeg_files in progress, the innermost last:
                  \* directory, its path, entries not yet looked at, files so far
    visits,       \* the paths of the directories read so far, in order
    \* --- the result-list utilities applied to one list
    mInput, mThreshold, mList, mOp,
    \* --- the skip policy applied to one description
    sDesc, sResult,
    \* --- operations on the vector store double
    lastPayload, storeOps, found, storePanic,
    upsertCall,   \* the last operation, when it was an upsert_points call:
                  \* its arguments, its outcome and the store before it
    \* --- the query entry point
    qpc, qArgc, qResponse, qResult, qOptions, qSummaryCalls, qReported, qExit,
    \* --- the command-line entry points
    cEntry,       \* the binary: "main", "descriptions", "embeddings", "query", "dump"
    cArgs,        \* args.len(): the program name and the arguments
    cEnv,         \* the environment values of the vector store client are set
    cDims,        \* the collection has the dimensionality of the provider's vectors
    cpc,          \* position in main
    cExit,        \* how main ended: "none", "Ok", "Err" or "panic"
    cDid,         \* what the program did so far outside itself
    cTodo,        \* files listed and not yet processed
    \* --- the stream-based entry point (main.rs)
    mpc,          \* position of main: "off", "listing", "joining" or "exit"
    mTodo,        \* files the stream has still to yield
    mTask,        \* spawned task -> "none" (not spawned), "waiting" (for a permit),
                  \* "describing", "storing", "finished" or "panicked"
    mPermits,     \* permits the semaphore has available
    mHeld,        \* the tasks that hold a permit
    mJoined       \* the tasks whose JoinHandle main has seen complete

sessionVars == <<service, xmp, rootNameless, run, phase, result, queue, pc,
                 tdesc, temb, calls, outcome, progress, failed, prev, snapshot, xmpBefore,
                 edited>>
scanVars == <<tree, fault, listed, stack, visits>>
modelsVars == <<mInput, mThreshold, mList, mOp>>
skipVars == <<sDesc, sResult>>
storeVars == <<lastPayload, storeOps, found, storePanic, upsertCall>>
queryVars == <<qpc, qArgc, qResponse, qResult, qOptions, qSummaryCalls,
               qReported, qExit>>
mainVars == <<mpc, mTodo, mTask, mPermits, mHeld, mJoined>>
cliVars == <<cEntry, cArgs, cEnv, cDims, cpc, cExit, cDid, cTodo>>
vars == <<sessionVars, store, scanVars, modelsVars, skipVars, storeVars, queryVars,
          cliVars, mainVars>>

\* -------------------------------------------------------------- the corpus
Files == 1..NFiles

TCat == <<"c","a","t">>
TACat == <<"a"," ","c","a","t">>
TPhoto == <<"p","h","o","t","o">>
TEmpty == <<>>

\* descriptions a file may be given between two runs
EditDescs == {None, Some(TCat), Some(TEmpty)}
\* texts the model may return for an image
ModelTexts == {TCat, TPhoto}

\* the names of the files of the corpus differ in one character
FileDigit == <<"1","2","3","4","5","6","7","8","9">>

\* the description a file of an ingestion session has when it has one
StoredText(f) == TACat \o <<FileDigit[f]>>

\* the tree of a session: file 1 lies in the root, the other files in the
\* directory "d" of the root, next to a file that is no JPEG
SessionTree ==
    [e \in 1..(NFiles + 2) |->
        IF e = 1 THEN File(0, <<FileDigit[e], ".", "j", "p", "g">>)
        ELSE IF e <= NFiles THEN File(NFiles + 1, <<FileDigit[e], ".", "J", "P", "G">>)
        ELSE IF e = NFiles + 1 THEN Dir(0, <<"d">>)
        ELSE File(0, <<"n", ".", "t", "x", "t">>)]

\* what may be unreadable when a run scans: nothing, the root, or the last
\* entry of the directory "d"
SessionFaults == {None, Some(DirFault(0)), Some(EntryFault(NFiles))}

\* the file a listed path names
FileOf(path) == path[Len(path)]

\* the final name of a root that has one
RootName == <<"r">>

\* DefaultHasher over the path: distinct on the paths of the corpus
Hash(f) == 1000 + 7 * f

\* path.display().to_string()
Display(f) == <<"path", f>>

\* path.parent().unwrap().file_name(): None when the parent is "/" or "."
ParentFileName(f, nameless) ==
    LET parent == SessionTree[f].parent
    IN  IF parent = 0
        THEN IF nameless THEN None ELSE Some(RootName)
        ELSE Some(SessionTree[parent].name)

\* the vector the provider returns for a text
Embedding(text) == <<"embedding", text>>

\* the embedding local of a task that has received none
NoEmbedding == <<"none">>

\* a file that was under the root in an earlier run and is gone since, and
\* the point that run wrote for it
FormerFile == 0
FormerPoint ==
    [id |-> Hash(FormerFile), embedding |-> Embedding(TCat),
     payload |-> [path |-> Some(Display(FormerFile)), description |-> Some(TCat),
                  folder |-> Some(RootName)]]

\* before the first run there is no earlier run
NoPrev == [result |-> "none", failed |-> FALSE, edited |-> FALSE, wrote |-> FALSE]

\* the tasks main.rs may spawn, one per file the stream yields
MainTasks == 1..MaxMainFiles

\* ---------------------------------------------------------- harness defaults
IdleModels == mInput = <<>> /\ mThreshold = 0 /\ mList = <<>> /\ mOp = "none"
IdleSkip == sDesc = None /\ sResult = None
IdleStoreOps ==
    /\ lastPayload = [n \in Names |-> [i \in 1..MaxIds |-> [n |-> 0, payload |-> None]]]
    /\ storeOps = 0 /\ found = None /\ storePanic = FALSE
    /\ upsertCall = None
IdleQuery ==
    /\ qpc = "off" /\ qArgc = 0 /\ qResponse = None /\ qResult = <<>>
    /\ qOptions = <<>> /\ qSummaryCalls = 0 /\ qReported = FALSE /\ qExit = "none"
IdleScan ==
    tree = <<>> /\ fault = None /\ listed = None /\ stack = <<>> /\ visits = <<>>
IdleCli ==
    /\ cEntry = "none" /\ cArgs = 0 /\ cEnv = TRUE /\ cDims = TRUE
    /\ cpc = "off" /\ cExit = "none" /\ cDid = {} /\ cTodo = 0
IdleMain ==
    /\ mpc = "off" /\ mTodo = 0 /\ mTask = [t \in MainTasks |-> "none"]
    /\ mPermits = 0 /\ mHeld = {} /\ mJoined = {}
IdleSession ==
    /\ service = "embeddings" /\ xmp = [f \in Files |-> None]
    /\ rootNameless = FALSE /\ run = 0 /\ phase = "idle" /\ result = "none"
    /\ queue = <<>> /\ pc = [f \in Files |-> "todo"]
    /\ tdesc = [f \in Files |-> TEmpty] /\ progress = 0
    /\ temb = [f \in Files |-> NoEmbedding]
    /\ calls = [f \in Files |-> {}] /\ outcome = [f \in Files |-> "none"]
    /\ failed = FALSE /\ prev = NoPrev /\ snapshot = EmptyStore
    /\ xmpBefore = [f \in Files |-> None]
    /\ edited = FALSE

\* ------------------------------------------------------------- the session
\* a session of EmbeddingsService: any files with or without a description,
\* a root with or without a name, a collection that does not exist, is empty
\* or holds the point of a file that is no longer under the root;
\* a session of DescriptionService: files without description, with a
\* specific one or with a generic one
Init ==
    /\ \/ /\ service = "embeddings"
          /\ xmp \in { x \in [Files -> {None} \cup { Some(StoredText(f)) : f \in Files }] :
                         \A f \in Files : x[f] \in {None, Some(StoredText(f))} }
          /\ rootNameless \in BOOLEAN
          /\ store \in {EmptyStore, create_collection(EmptyStore, COLLECTION_NAME),
                        upsert_points(create_collection(EmptyStore, COLLECTION_NAME),
                                      COLLECTION_NAME, <<FormerPoint>>)}
       \/ /\ service = "descriptions"
          /\ xmp \in [Files -> {None, Some(TCat), Some(TPhoto)}]
          /\ rootNameless = FALSE
          /\ store = EmptyStore
    /\ run = 0 /\ phase = "idle" /\ result = "none"
    /\ queue = <<>> /\ pc = [f \in Files |-> "todo"]
    /\ tdesc = [f \in Files |-> TEmpty] /\ progress = 0
    /\ temb = [f \in Files |-> NoEmbedding]
    /\ calls = [f \in Files |-> {}] /\ outcome = [f \in Files |-> "none"]
    /\ failed = FALSE /\ prev = NoPrev /\ snapshot = store
    /\ xmpBefore = xmp
    /\ edited = FALSE
    /\ tree = SessionTree /\ fault = None /\ listed = None
    /\ stack = <<>> /\ visits = <<>>
    /\ IdleModels /\ IdleSkip /\ IdleStoreOps /\ IdleQuery /\ IdleCli /\ IdleMain

Awaiting == {"probe", "embed", "upsert", "describe"}
InFlight == { f \in Files : pc[f] \in Awaiting }

\* for_each_concurrent with a limit that admits one task too many
CanStartOffByOne(n) == n <= MAX_CONCURRENT_TASKS

\* for_each (no limit): every file is started as soon as it is listed
CanStartUnbounded(n) == TRUE

\* for_each_concurrent(MAX_CONCURRENT_TASKS, ..): a further item is taken from
\* the stream only while fewer than the limit are in flight
CanStart(n) == n < MAX_CONCURRENT_TASKS

\* a progress bar that is not advanced when a task starts
ProgressIncLater(position) == position

\* progress_bar.inc(1), the first statement of every task
\* (embeddings.rs:62, descriptions.rs:59)
ProgressInc(position) == position + 1

\* a task error that ends the run
OnTaskResultPropagate(ok) == IF ok THEN "continue" ELSE "abort"

\* if let Err(e) = self.process_path(&path).await { error!(..) }: the error
\* is logged and the task ends
OnTaskResult(ok) == "continue"

\* the task of file f ends with process_path returning Ok (ok) or Err
EndTask(f, ok) ==
    /\ pc' = [pc EXCEPT ![f] = "done"]
    /\ outcome' = [outcome EXCEPT ![f] = IF ok THEN "Ok" ELSE "Err"]
    /\ failed' = (failed \/ ~ok)
    /\ IF OnTaskResult(ok) = "continue"
       THEN phase' = phase /\ result' = result
       ELSE phase' = "returned" /\ result' = "Err"

\* a panic unwinds out of generate: the process ends, its tasks with it
Panic ==
    /\ phase' = "crashed"
    /\ result' = "none"
    /\ pc' = pc
    /\ outcome' = outcome
    /\ failed' = failed

\* a run that drops and creates the collection whatever DROP_COLLECTION says
PrepareCollectionAlways(st) ==
    create_collection(delete_collection(st, COLLECTION_NAME), COLLECTION_NAME)

\* if DROP_COLLECTION { delete_collection; create_collection }
\* (embeddings.rs:44-47)
PrepareCollection(st) ==
    IF DROP_COLLECTION
    THEN create_collection(delete_collection(st, COLLECTION_NAME), COLLECTION_NAME)
    ELSE st

\* generate up to the first poll of for_each_concurrent: list_jpeg_files(root)?
\* and the progress bar; a failed scan returns the error
StartRun ==
    /\ phase \in {"idle", "returned", "crashed"}
    /\ run < MaxRuns
    /\ run' = run + 1
    /\ pc' = [f \in Files |-> "todo"]
    /\ tdesc' = [f \in Files |-> TEmpty]
    /\ temb' = [f \in Files |-> NoEmbedding]
    /\ calls' = [f \in Files |-> {}]
    /\ outcome' = [f \in Files |-> "none"]
    /\ progress' = 0
    /\ prev' = [result |-> IF phase = "crashed" THEN "crashed" ELSE result,
                 failed |-> failed, edited |-> edited,
                 wrote |-> \E f \in Files : pc[f] = "written"]
    /\ snapshot' = store
    /\ xmpBefore' = xmp
    /\ edited' = FALSE
    /\ \E ft \in SessionFaults :
         LET r == list_jpeg_files(tree, ft) IN
         /\ fault' = ft
         /\ listed' = Some(r)
         /\ failed' = r.err
         /\ IF ~r.err
            THEN /\ queue' = [i \in 1..Len(r.files) |-> FileOf(r.files[i])]
                 /\ phase' = "running" /\ result' = "none"
            ELSE /\ queue' = <<>>
                 /\ phase' = "returned" /\ result' = "Err"
         /\ store' = IF service = "embeddings" /\ ~r.err
                      THEN PrepareCollection(store) ELSE store
    /\ UNCHANGED <<service, xmp, rootNameless, tree, stack, visits>>
    /\ UNCHANGED <<modelsVars, skipVars, storeVars, queryVars, cliVars,
                   mainVars>>

\* between two runs somebody rewrites one file's description
\* (XMPMetadata::set_description from outside the run)
EditDescription ==
    /\ service = "embeddings"
    /\ phase \in {"returned", "crashed"}
    /\ run < MaxRuns
    /\ ~edited
    /\ \E f \in Files : \E d \in EditDescs :
         /\ d # xmp[f]
         /\ xmp' = [xmp EXCEPT ![f] = d]
    /\ edited' = TRUE
    /\ UNCHANGED <<service, rootNameless, store, run, phase, result, queue, pc,
                   tdesc, temb, calls, outcome, progress, failed, prev, snapshot,
                   xmpBefore>>
    /\ UNCHANGED <<scanVars, modelsVars, skipVars, storeVars, queryVars, cliVars,
                   mainVars>>

\* payload: HashMap<String, String> with the keys the program uses
EmptyPayload == [path |-> None, description |-> None, folder |-> None]

\* the payload process_path builds (embeddings.rs:114-117)
Payload(f, description, folder) ==
    [path |-> Some(Display(f)), description |-> Some(description),
     folder |-> Some(folder)]

\* the probe never short-circuits
ExistingUnchangedNever(r, description) == FALSE

\* Ok(Some(existing_entry)) whose payload has a description that contains
\* the description just read (embeddings.rs:83-94)
ExistingUnchanged(r, description) ==
    /\ IsSome(r)
    /\ IsSome(Unwrap(r).payload.description)
    /\ Contains(Unwrap(Unwrap(r).payload.description), description)

\* one embedding variable shared by the tasks
TaskShared(f) == 1

\* the embedding is a local of the task that requested it
\* (embeddings.rs:105-106): each file's task has its own
TaskLocal(f) == f

\* process_path up to its first await: get_description, the hash, and the
\* find_by_id request; run when for_each_concurrent takes the next file
EStart ==
    /\ service = "embeddings" /\ phase = "running"
    /\ queue # <<>>
    /\ CanStart(Cardinality(InFlight))
    /\ LET f == Head(queue) IN
       /\ queue' = Tail(queue)
       /\ progress' = ProgressInc(progress)
       /\ \E readOk \in BOOLEAN :
            IF ~readOk
            THEN /\ tdesc' = tdesc /\ EndTask(f, FALSE)
                 /\ calls' = [calls EXCEPT ![f] = {"get_description"}]
            ELSE IF ~IsSome(xmp[f])
            THEN /\ tdesc' = tdesc /\ EndTask(f, TRUE)
                 /\ calls' = [calls EXCEPT ![f] = {"get_description"}]
            ELSE /\ tdesc' = [tdesc EXCEPT ![f] = Unwrap(xmp[f])]
                 /\ pc' = [pc EXCEPT ![f] = "probe"]
                 /\ calls' = [calls EXCEPT ![f] = {"get_description", "find_by_id"}]
                 /\ UNCHANGED <<phase, result, failed, outcome>>
    /\ UNCHANGED <<service, xmp, rootNameless, store, run, temb, prev,
                   snapshot, xmpBefore, edited>>
    /\ UNCHANGED <<scanVars, modelsVars, skipVars, storeVars, queryVars, cliVars,
                   mainVars>>

\* find_by_id returns (embeddings.rs:82-103); on a match the task ends,
\* otherwise the get_embedding request is issued
EProbeReturn(f) ==
    /\ service = "embeddings" /\ phase = "running"
    /\ pc[f] = "probe"
    /\ \/ \* Err(e): the store is unreachable or the collection unknown
          EndTask(f, FALSE) /\ calls' = calls
       \/ \* the double: expect("Collection missing in store")
          ~IsSome(store[COLLECTION_NAME]) /\ Panic /\ calls' = calls
       \/ /\ IsSome(store[COLLECTION_NAME])
          /\ IF ExistingUnchanged(find_by_id(store, COLLECTION_NAME, Hash(f)),
                                  tdesc[f])
             THEN EndTask(f, TRUE) /\ calls' = calls
             ELSE /\ pc' = [pc EXCEPT ![f] = "embed"]
                  /\ calls' = [calls EXCEPT ![f] = @ \cup {"get_embedding"}]
                  /\ UNCHANGED <<phase, result, failed, outcome>>
    /\ UNCHANGED <<service, xmp, rootNameless, store, run, queue, tdesc, temb,
                   progress, prev, snapshot, xmpBefore, edited>>
    /\ UNCHANGED <<scanVars, modelsVars, skipVars, storeVars, queryVars, cliVars,
                   mainVars>>

\* get_embedding returns (embeddings.rs:105-125, 138-141); on success the
\* payload is built and the upsert_points request is issued
EEmbedReturn(f) ==
    /\ service = "embeddings" /\ phase = "running"
    /\ pc[f] = "embed"
    /\ \/ temb' = temb /\ EndTask(f, FALSE) /\ calls' = calls
       \/ /\ temb' = [temb EXCEPT ![TaskLocal(f)] = Embedding(tdesc[f])]
          /\ IF IsSome(ParentFileName(f, rootNameless))
             THEN /\ pc' = [pc EXCEPT ![f] = "upsert"]
                  /\ calls' = [calls EXCEPT ![f] = @ \cup {"upsert_points"}]
                  /\ UNCHANGED <<phase, result, failed, outcome>>
             ELSE \* file_name().unwrap() on None
                  Panic /\ calls' = calls
    /\ UNCHANGED <<service, xmp, rootNameless, store, run, queue, tdesc,
                   progress, prev, snapshot, xmpBefore, edited>>
    /\ UNCHANGED <<scanVars, modelsVars, skipVars, storeVars, queryVars, cliVars,
                   mainVars>>

\* upsert_points returns (embeddings.rs:126-136): the payload did not convert,
\* the store rejected the request or did not answer, or the point was written
EUpsertReturn(f) ==
    /\ service = "embeddings" /\ phase = "running"
    /\ pc[f] = "upsert"
    /\ temb' = [temb EXCEPT ![TaskLocal(f)] = NoEmbedding]
    /\ \E bad \in {{}, {1}} : \E remoteOk \in BOOLEAN :
         LET r == qdrant_upsert_points(store, COLLECTION_NAME,
                      << [id |-> Hash(f),
                          embedding |-> temb[TaskLocal(f)],
                          payload |-> Payload(f, tdesc[f],
                              Unwrap(ParentFileName(f, rootNameless)))] >>,
                      bad, remoteOk)
         IN  /\ store' = r.store
             /\ EndTask(f, r.result = "Ok")
    /\ UNCHANGED <<service, xmp, rootNameless, run, queue, tdesc, calls, progress,
                   prev, snapshot, xmpBefore, edited>>
    /\ UNCHANGED <<scanVars, modelsVars, skipVars, storeVars, queryVars, cliVars,
                   mainVars>>

\* a closure that reads the persons and encodes the image before it decides
\* whether the file is skipped
DescriptionWorkEager(skip) ==
    {"get_description", "get_persons", "resize_and_base64encode_image"}

\* the calls of the closure before the model is called (descriptions.rs:63-87):
\* a skipped file returns after get_description
DescriptionWork(skip) ==
    IF skip THEN {"get_description"}
    ELSE {"get_description", "get_persons", "resize_and_base64encode_image"}

\* a read of the stored description that cannot fail
unwrap_or_keep(readOk, stored) == stored

\* get_description(&path).unwrap_or_default() (descriptions.rs:63): an error
\* of the read becomes None
unwrap_or_default(readOk, stored) == IF readOk THEN stored ELSE None

\* the closure of DescriptionService::generate up to its first await
\* (descriptions.rs:58-98): a skipped file returns at once, another has its
\* persons read and its image encoded before the model is called
DStart ==
    /\ service = "descriptions" /\ phase = "running"
    /\ queue # <<>>
    /\ CanStart(Cardinality(InFlight))
    /\ LET f == Head(queue) IN
       /\ queue' = Tail(queue)
       /\ progress' = ProgressInc(progress)
       /\ \E readOk \in BOOLEAN :
            LET description == unwrap_or_default(readOk, xmp[f])
            IN  IF can_be_skipped(description)
                THEN /\ pc' = [pc EXCEPT ![f] = "skipped"]
                     /\ calls' = [calls EXCEPT ![f] = DescriptionWork(TRUE)]
                     /\ failed' = (failed \/ ~readOk)
                ELSE \E personsOk \in BOOLEAN : \E encodeOk \in BOOLEAN :
                     /\ failed' = (failed \/ ~readOk \/ ~personsOk \/ ~encodeOk)
                     /\ calls' = [calls EXCEPT ![f] =
                                     DescriptionWork(FALSE) \cup
                                     (IF encodeOk THEN {"get_image_description"}
                                      ELSE {})]
                     /\ pc' = [pc EXCEPT ![f] =
                                  IF encodeOk THEN "describe" ELSE "done"]
    /\ UNCHANGED <<service, xmp, rootNameless, store, run, phase, result,
                   tdesc, temb, outcome, prev, snapshot, xmpBefore, edited>>
    /\ UNCHANGED <<scanVars, modelsVars, skipVars, storeVars, queryVars, cliVars,
                   mainVars>>

\* a metadata write that keeps a description the file already has
set_description_if_absent(stored, text) ==
    IF IsSome(stored) THEN stored ELSE Some(text)

\* XMPMetadata::set_description (xmp.rs:74-89): the x-default text of
\* dc:description, the one get_description reads, is set to the text
set_description(stored, text) == Some(text)

\* get_image_description returns (descriptions.rs:95-117); on success the
\* text is written with set_description
DDescribeReturn(f) ==
    /\ service = "descriptions" /\ phase = "running"
    /\ pc[f] = "describe"
    /\ \/ /\ failed' = TRUE
          /\ pc' = [pc EXCEPT ![f] = "done"]
          /\ UNCHANGED <<xmp, tdesc, calls>>
       \/ \E text \in ModelTexts : \E writeOk \in BOOLEAN :
          /\ tdesc' = [tdesc EXCEPT ![f] = text]
          /\ calls' = [calls EXCEPT ![f] = @ \cup {"set_description"}]
          /\ IF writeOk
             THEN /\ xmp' = [xmp EXCEPT ![f] = set_description(@, text)]
                  /\ pc' = [pc EXCEPT ![f] = "written"]
                  /\ failed' = failed
             ELSE /\ xmp' = xmp
                  /\ pc' = [pc EXCEPT ![f] = "done"]
                  /\ failed' = TRUE
    /\ UNCHANGED <<service, rootNameless, store, run, phase, result, queue,
                   temb, outcome, progress, prev, snapshot, xmpBefore, edited>>
    /\ UNCHANGED <<scanVars, modelsVars, skipVars, storeVars, queryVars, cliVars,
                   mainVars>>

\* for_each_concurrent completes when the stream is exhausted and no task is
\* in flight; generate returns Ok (embeddings.rs:70-71, descriptions.rs:130-134)
Finish ==
    /\ phase = "running"
    /\ queue = <<>>
    /\ InFlight = {}
    /\ phase' = "returned"
    /\ result' = "Ok"
    /\ UNCHANGED <<service, xmp, rootNameless, store, run, queue, pc, tdesc,
                   temb, calls, outcome, progress, failed, prev, snapshot, xmpBefore,
                   edited>>
    /\ UNCHANGED <<scanVars, modelsVars, skipVars, storeVars, queryVars, cliVars,
                   mainVars>>

Next ==
    \/ StartRun
    \/ EditDescription
    \/ EStart
    \/ \E f \in Files : EProbeReturn(f)
    \/ \E f \in Files : EEmbedReturn(f)
    \/ \E f \in Files : EUpsertReturn(f)
    \/ DStart
    \/ \E f \in Files : DDescribeReturn(f)
    \/ Finish

Spec == Init /\ [][Next]_vars

\* ------------------------------------------------------- the scanner: harness
\* names of entries: JPEG extensions in several letter cases, another
\* extension, no extension, a leading dot only, and a JPEG extension that is
\* not the last one
ScanNames == { <<"a",".","j","p","g">>,
               <<"b",".","J","p","E","G">>,
               <<"c",".","p","n","g">>,
               <<"j","p","g">>,
               <<".","j","p","g">>,
               <<"d",".","j","p","g",".","t">> }

\* the directories of a tree (0 is the root)
Dirs(t) == {0} \cup { e \in 1..Len(t) : t[e].kind = "dir" }

\* the names in use in directory d
NamesIn(t, d) == { t[e].name : e \in { x \in 1..Len(t) : t[x].parent = d } }

ScanInit ==
    /\ tree = <<>> /\ fault = None /\ listed = None
    /\ stack = <<>> /\ visits = <<>>
    /\ IdleSession /\ store = EmptyStore
    /\ IdleModels /\ IdleSkip /\ IdleStoreOps /\ IdleQuery /\ IdleCli /\ IdleMain

\* File::create(dir.join(name))
CreateFile ==
    /\ listed = None /\ Len(tree) < MaxEntries
    /\ \E d \in Dirs(tree) : \E name \in ScanNames \ NamesIn(tree, d) :
         tree' = Append(tree, File(d, name))
    /\ UNCHANGED <<fault, listed, stack, visits>>
    /\ UNCHANGED <<sessionVars, store, modelsVars, skipVars, storeVars, queryVars, cliVars,
                   mainVars>>

\* create_dir(dir.join(name))
CreateDir ==
    /\ listed = None /\ Len(tree) < MaxEntries
    /\ \E d \in Dirs(tree) : \E name \in ScanNames \ NamesIn(tree, d) :
         tree' = Append(tree, Dir(d, name))
    /\ UNCHANGED <<fault, listed, stack, visits>>
    /\ UNCHANGED <<sessionVars, store, modelsVars, skipVars, storeVars, queryVars, cliVars,
                   mainVars>>

\* a symbolic link in directory d to a directory, which may be d itself or
\* a directory above it
CreateLink ==
    /\ listed = None /\ Len(tree) < MaxEntries
    /\ \E d \in Dirs(tree) : \E name \in ScanNames \ NamesIn(tree, d) :
       \E target \in Dirs(tree) :
         tree' = Append(tree, Link(d, name, target))
    /\ UNCHANGED <<fault, listed, stack, visits>>
    /\ UNCHANGED <<sessionVars, store, modelsVars, skipVars, storeVars, queryVars, cliVars,
                   mainVars>>

\* list_jpeg_files(root) while nothing, one directory or one entry is
\* unreadable
Scan ==
    /\ listed = None
    /\ \E ft \in {None} \cup { Some(DirFault(d)) : d \in Dirs(tree) }
                        \cup { Some(EntryFault(e)) : e \in 1..Len(tree) } :
         /\ fault' = ft
         /\ listed' = Some(list_jpeg_files(tree, ft))
    /\ UNCHANGED <<tree, stack, visits>>
    /\ UNCHANGED <<sessionVars, store, modelsVars, skipVars, storeVars, queryVars, cliVars,
                   mainVars>>

ScanNext == CreateFile \/ CreateDir \/ CreateLink \/ Scan

SpecScan == ScanInit /\ [][ScanNext]_vars

\* ------------------------------------------- the scanner, call by call
\* names for the trees of the walk: two JPEG names and another
WalkNames == { <<"a",".","j","p","g">>,
               <<"b",".","J","p","E","G">>,
               <<"c",".","p","n","g">> }

\* the entries that can be added to a tree: a file, a directory or a link to
\* a directory (the directory it lies in and those above it included), under
\* a name not in use in its directory
NewEntries(t) ==
    UNION { UNION { {File(d, name), Dir(d, name)}
                      \cup { Link(d, name, target) : target \in Dirs(t) } :
                    name \in WalkNames \ NamesIn(t, d) } :
            d \in Dirs(t) }

\* the trees of n entries
RECURSIVE TreesOfLen(_)
TreesOfLen(n) ==
    IF n = 0 THEN {<<>>}
    ELSE UNION { { Append(t, e) : e \in NewEntries(t) } : t \in TreesOfLen(n - 1) }

\* what may be unreadable in a tree
FaultsOf(t) ==
    {None} \cup { Some(DirFault(d)) : d \in Dirs(t) }
           \cup { Some(EntryFault(e)) : e \in 1..Len(t) }

\* the frame of one call of list_jpeg_files: `files` is its local vector
Frame(d, prefix, entries) ==
    [dir |-> d, prefix |-> prefix, entries |-> entries, files |-> <<>>]

WalkInit ==
    /\ \E n \in 0..MaxEntries : tree \in TreesOfLen(n)
    /\ fault \in FaultsOf(tree)
    /\ listed = None /\ stack = <<>> /\ visits = <<>>
    /\ IdleSession /\ store = EmptyStore
    /\ IdleModels /\ IdleSkip /\ IdleStoreOps /\ IdleQuery /\ IdleCli /\ IdleMain

\* list_jpeg_files(root) is called: read_dir(path)? (file_utils.rs:7-8)
WalkCall ==
    /\ listed = None /\ stack = <<>> /\ visits = <<>>
    /\ visits' = <<<<>>>>
    /\ IF fault = Some(DirFault(0))
       THEN listed' = Some(ScanErr) /\ stack' = stack
       ELSE listed' = listed /\ stack' = <<Frame(0, <<>>, read_dir(tree, 0))>>
    /\ UNCHANGED <<tree, fault>>
    /\ UNCHANGED <<sessionVars, store, modelsVars, skipVars, storeVars, queryVars, cliVars,
                   mainVars>>

\* one turn of the loop of the innermost call (file_utils.rs:9-18): entry?
\* returns the error through every caller, a directory is entered with a
\* recursive call (whose read_dir may fail), a JPEG is pushed
WalkEntry ==
    /\ listed = None /\ stack # <<>>
    /\ stack[Len(stack)].entries # <<>>
    /\ LET top == stack[Len(stack)]
           e == Head(top.entries)
           path == Append(top.prefix, e)
           rest == [top EXCEPT !.entries = Tail(top.entries)]
       IN  IF fault = Some(EntryFault(e))
           THEN listed' = Some(ScanErr) /\ stack' = <<>> /\ visits' = visits
           ELSE IF is_dir(tree, path)
           THEN /\ visits' = Append(visits, path)
                /\ IF fault = Some(DirFault(Resolve(tree, e)))
                   THEN listed' = Some(ScanErr) /\ stack' = <<>>
                   ELSE /\ listed' = listed
                        /\ stack' = Append([stack EXCEPT ![Len(stack)] = rest],
                                           Frame(Resolve(tree, e), path,
                                                 read_dir(tree, Resolve(tree, e))))
           ELSE /\ listed' = listed /\ visits' = visits
                /\ stack' = [stack EXCEPT ![Len(stack)] =
                                IF is_jpeg(tree[e].name)
                                THEN [rest EXCEPT !.files = Append(@, path)]
                                ELSE rest]
    /\ UNCHANGED <<tree, fault>>
    /\ UNCHANGED <<sessionVars, store, modelsVars, skipVars, storeVars, queryVars, cliVars,
                   mainVars>>

\* the loop of the innermost call is over: Ok(files) (file_utils.rs:20); the
\* caller extends its files with them (file_utils.rs:14)
WalkReturn ==
    /\ listed = None /\ stack # <<>>
    /\ stack[Len(stack)].entries = <<>>
    /\ LET top == stack[Len(stack)]
       IN  IF Len(stack) = 1
           THEN /\ listed' = Some([err |-> FALSE, files |-> top.files])
                /\ stack' = <<>>
           ELSE /\ listed' = listed
                /\ stack' = [SubSeq(stack, 1, Len(stack) - 1) EXCEPT
                                ![Len(stack) - 1].files = @ \o top.files]
    /\ UNCHANGED <<tree, fault, visits>>
    /\ UNCHANGED <<sessionVars, store, modelsVars, skipVars, storeVars, queryVars, cliVars,
                   mainVars>>

WalkNext == WalkCall \/ WalkEntry \/ WalkReturn

\* the call runs on: a step that can be taken is taken
SpecWalk == WalkInit /\ [][WalkNext]_vars /\ WF_vars(WalkNext)

\* ------------------------------------------------ result lists: harness
\* a VectorOutput; the id is the position in the list it came in
Output(i, score, payload) == [id |-> i, score |-> score, payload |-> payload]

Scores == {None} \cup { Some(v) : v \in F32 }

\* the lists of n results: result i has id i and any score
ListsOfLen(n) ==
    { [i \in 1..n |-> Output(i, sc[i], EmptyPayload)] : sc \in [1..n -> Scores] }

ModelsInit ==
    /\ \E n \in 0..MaxResults : mInput \in ListsOfLen(n)
    /\ mThreshold \in F32
    /\ mList = mInput
    /\ mOp = "none"
    /\ IdleSession /\ store = EmptyStore /\ IdleScan
    /\ IdleSkip /\ IdleStoreOps /\ IdleQuery /\ IdleCli /\ IdleMain

\* list.limit_results(score)
MLimit ==
    /\ mOp = "none"
    /\ mList' = limit_results(mList, mThreshold)
    /\ mOp' = "limited"
    /\ UNCHANGED <<mInput, mThreshold>>
    /\ UNCHANGED <<sessionVars, scanVars, store, skipVars, storeVars, queryVars, cliVars,
                   mainVars>>

\* list.sort_by_score(), on the list as given or after limit_results
MSort ==
    /\ mOp \in {"none", "limited"}
    /\ LET r == sort_by_score(mList)
       IN  IF r.panic
           THEN mOp' = "panicked" /\ mList' = mList
           ELSE mOp' = (IF mOp = "none" THEN "sorted" ELSE "limited_sorted")
                /\ mList' = r.list
    /\ UNCHANGED <<mInput, mThreshold>>
    /\ UNCHANGED <<sessionVars, scanVars, store, skipVars, storeVars, queryVars, cliVars,
                   mainVars>>

ModelsNext == MLimit \/ MSort

SpecModels == ModelsInit /\ [][ModelsNext]_vars

\* -------------------------------------------------- skip policy: harness
Pieces == { <<"i","m","a","g","e">>,
            <<"P","h","o","t","o">>,
            <<"P","I","C","T","U","R","E">>,
            <<"p","h","o","t","o","g","r","a","p","h">>,
            <<"s">>, <<" ">>, <<"_">>, <<"-">>,
            <<"c","a","t">> }

RECURSIVE TextsOf(_)
TextsOf(n) ==
    IF n = 0 THEN {<<>>}
    ELSE LET T == TextsOf(n - 1) IN T \cup { t \o q : t \in T, q \in Pieces }

SkipInit ==
    /\ sDesc \in {None} \cup { Some(t) : t \in TextsOf(MaxPieces) }
    /\ sResult = None
    /\ IdleSession /\ store = EmptyStore /\ IdleScan
    /\ IdleModels /\ IdleStoreOps /\ IdleQuery /\ IdleCli /\ IdleMain

\* can_be_skipped(description, path)
ApplySkip ==
    /\ sResult = None
    /\ sResult' = Some(can_be_skipped(sDesc))
    /\ UNCHANGED sDesc
    /\ UNCHANGED <<sessionVars, scanVars, store, modelsVars, storeVars, queryVars, cliVars,
                   mainVars>>

SkipNext == ApplySkip

SpecSkip == SkipInit /\ [][SkipNext]_vars

\* --------------------------------------------- vector store double: harness
MaxBatch == 2

StorePayloads ==
    { EmptyPayload,
      [EmptyPayload EXCEPT !.description = Some(TCat)],
      [EmptyPayload EXCEPT !.description = Some(TPhoto)] }

StoreInputs ==
    { [id |-> i, embedding |-> Embedding(TEmpty), payload |-> q] :
        i \in 1..MaxIds, q \in StorePayloads }

Batches == UNION { [1..n -> StoreInputs] : n \in 1..MaxBatch }

\* what the calls so far wrote: per id the number of upserts and the last payload
RECURSIVE Record(_, _)
Record(w, inputs) ==
    IF inputs = <<>> THEN w
    ELSE Record([w EXCEPT ![inputs[1].id] =
                    [n |-> @.n + 1, payload |-> Some(inputs[1].payload)]],
                Tail(inputs))

StoreInit ==
    /\ store = EmptyStore
    /\ IdleStoreOps
    /\ IdleSession /\ IdleScan /\ IdleModels /\ IdleSkip /\ IdleQuery /\ IdleCli /\ IdleMain

SCreate(name) ==
    /\ storeOps < MaxStoreOps /\ ~storePanic
    /\ storeOps' = storeOps + 1
    /\ store' = create_collection(store, name)
    /\ upsertCall' = None
    /\ UNCHANGED <<lastPayload, found, storePanic>>
    /\ UNCHANGED <<sessionVars, scanVars, modelsVars, skipVars, queryVars, cliVars,
                   mainVars>>

SDelete(name) ==
    /\ storeOps < MaxStoreOps /\ ~storePanic
    /\ storeOps' = storeOps + 1
    /\ store' = delete_collection(store, name)
    /\ lastPayload' = [lastPayload EXCEPT
                         ![name] = [i \in 1..MaxIds |-> [n |-> 0, payload |-> None]]]
    /\ upsertCall' = None
    /\ UNCHANGED <<found, storePanic>>
    /\ UNCHANGED <<sessionVars, scanVars, modelsVars, skipVars, queryVars, cliVars,
                   mainVars>>

\* upsert_points(name, inputs); store.get_mut(name).unwrap() panics when the
\* collection is missing
SUpsert(name, inputs) ==
    /\ storeOps < MaxStoreOps /\ ~storePanic
    /\ storeOps' = storeOps + 1
    /\ IF IsSome(store[name])
       THEN /\ store' = upsert_points(store, name, inputs)
            /\ lastPayload' = [lastPayload EXCEPT
                                 ![name] = Record(@, inputs)]
            /\ storePanic' = FALSE
       ELSE /\ storePanic' = TRUE
            /\ UNCHANGED <<store, lastPayload>>
    /\ upsertCall' = Some([name |-> name, inputs |-> inputs, before |-> store,
                           result |-> IF IsSome(store[name]) THEN "Ok" ELSE "panic"])
    /\ UNCHANGED found
    /\ UNCHANGED <<sessionVars, scanVars, modelsVars, skipVars, queryVars, cliVars,
                   mainVars>>

\* find_by_id(name, id); expect("Collection missing in store") panics when the
\* collection is missing
SFind(name, id) ==
    /\ storeOps < MaxStoreOps /\ ~storePanic
    /\ storeOps' = storeOps + 1
    /\ IF IsSome(store[name])
       THEN /\ found' = Some([name |-> name,
                              hit |-> find_by_id(store, name, id)])
            /\ storePanic' = FALSE
       ELSE /\ storePanic' = TRUE
            /\ found' = found
    /\ upsertCall' = None
    /\ UNCHANGED <<store, lastPayload>>
    /\ UNCHANGED <<sessionVars, scanVars, modelsVars, skipVars, queryVars, cliVars,
                   mainVars>>

\* QdrantClient::upsert_points(name, inputs) against the same collections:
\* the inputs in bad (none or one of them) have a payload that does not
\* convert, and the engine accepts the request (remoteOk) or rejects it
SUpsertQdrant(name, inputs, bad, remoteOk) ==
    /\ storeOps < MaxStoreOps /\ ~storePanic
    /\ storeOps' = storeOps + 1
    /\ LET r == qdrant_upsert_points(store, name, inputs, bad, remoteOk)
       IN  /\ store' = r.store
           /\ lastPayload' = IF r.result = "Ok"
                              THEN [lastPayload EXCEPT ![name] = Record(@, inputs)]
                              ELSE lastPayload
           /\ upsertCall' = Some([name |-> name, inputs |-> inputs,
                                  before |-> store, result |-> r.result])
    /\ UNCHANGED <<found, storePanic>>
    /\ UNCHANGED <<sessionVars, scanVars, modelsVars, skipVars, queryVars, cliVars,
                   mainVars>>

StoreNext ==
    \/ \E name \in Names : SCreate(name)
    \/ \E name \in Names : SDelete(name)
    \/ \E name \in Names : \E inputs \in Batches : SUpsert(name, inputs)
    \/ \E name \in Names : \E inputs \in Batches :
       \E bad \in {{}} \cup { {i} : i \in 1..Len(inputs) } :
       \E remoteOk \in (IF bad = {} THEN BOOLEAN ELSE {TRUE}) :
           SUpsertQdrant(name, inputs, bad, remoteOk)
    \/ \E name \in Names : \E id \in 1..MaxIds : SFind(name, id)

SpecStore == StoreInit /\ [][StoreNext]_vars

\* ------------------------------------------------------- query entry point
\* search results: result i has id i, any score, with or without description
QueryListsOfLen(n) ==
    { [i \in 1..n |-> Output(i, sc[i],
          IF i \in withDesc
          THEN [EmptyPayload EXCEPT !.description = Some(<<"d", i>>)]
          ELSE EmptyPayload)] :
        sc \in [1..n -> Scores], withDesc \in SUBSET (1..n) }

\* r.payload.get("description").cloned().unwrap_or_default()
DescriptionOf(r) ==
    IF IsSome(r.payload.description) THEN Unwrap(r.payload.description) ELSE TEmpty

\* result.iter().map(..).collect()
Project(list) == [i \in 1..Len(list) |-> DescriptionOf(list[i])]

\* a check that never reports an empty result
IsEmptyNever(list) == FALSE

\* result.is_empty() (query.rs:41)
IsEmpty(list) == list = <<>>

\* the query path with the sort left out
SortForQuerySkipped(list) == [panic |-> FALSE, list |-> list]

\* result.sort_by_score() (query.rs:39)
SortForQuery(list) == sort_by_score(list)

QueryInit ==
    /\ qpc = "start" /\ qArgc \in 1..3
    /\ qResponse = None /\ qResult = <<>> /\ qOptions = <<>>
    /\ qSummaryCalls = 0 /\ qReported = FALSE /\ qExit = "none"
    /\ IdleSession /\ store = EmptyStore /\ IdleScan
    /\ IdleModels /\ IdleSkip /\ IdleStoreOps /\ IdleCli /\ IdleMain

\* main up to its first await (query.rs:21-32): the clients are built, the
\* arguments counted and the embedding of the question requested
QueryStart ==
    /\ qpc = "start"
    /\ \E cfg \in {"ok", "err", "panic"} :
         IF cfg = "panic" THEN qpc' = "exit" /\ qExit' = "panic"
         ELSE IF cfg = "err" THEN qpc' = "exit" /\ qExit' = "Err"
         ELSE IF qArgc # 2 THEN qpc' = "exit" /\ qExit' = "Err"
         ELSE qpc' = "embeddings" /\ qExit' = qExit
    /\ UNCHANGED <<qArgc, qResponse, qResult, qOptions, qSummaryCalls, qReported>>
    /\ UNCHANGED <<sessionVars, scanVars, store, modelsVars, skipVars, storeVars, cliVars,
                   mainVars>>

\* get_embeddings returns (query.rs:32-36); on success the search is requested
QueryEmbeddingsReturn ==
    /\ qpc = "embeddings"
    /\ \E ok \in BOOLEAN :
         IF ok THEN qpc' = "search" /\ qExit' = qExit
         ELSE qpc' = "exit" /\ qExit' = "Err"
    /\ UNCHANGED <<qArgc, qResponse, qResult, qOptions, qSummaryCalls, qReported>>
    /\ UNCHANGED <<sessionVars, scanVars, store, modelsVars, skipVars, storeVars, cliVars,
                   mainVars>>

\* search_points returns (query.rs:34-56): the results are sorted, an empty
\* list is reported, otherwise the descriptions go to process_search_result
QuerySearchReturn ==
    /\ qpc = "search"
    /\ \/ /\ qpc' = "exit" /\ qExit' = "Err"
          /\ UNCHANGED <<qResponse, qResult, qOptions, qSummaryCalls, qReported>>
       \/ \E n \in 0..MaxResults : \E list \in QueryListsOfLen(n) :
          LET r == SortForQuery(list) IN
          /\ qResponse' = Some(list)
          /\ IF r.panic
             THEN /\ qpc' = "exit" /\ qExit' = "panic"
                  /\ UNCHANGED <<qResult, qOptions, qSummaryCalls, qReported>>
             ELSE /\ qResult' = r.list
                  /\ IF IsEmpty(r.list)
                     THEN /\ qReported' = TRUE
                          /\ qpc' = "exit" /\ qExit' = "Ok"
                          /\ UNCHANGED <<qOptions, qSummaryCalls>>
                     ELSE /\ qOptions' = Project(r.list)
                          /\ qSummaryCalls' = qSummaryCalls + 1
                          /\ qpc' = "summary" /\ qExit' = qExit
                          /\ qReported' = qReported
    /\ UNCHANGED qArgc
    /\ UNCHANGED <<sessionVars, scanVars, store, modelsVars, skipVars, storeVars, cliVars,
                   mainVars>>

\* process_search_result returns (query.rs:56-60)
QuerySummaryReturn ==
    /\ qpc = "summary"
    /\ qpc' = "exit"
    /\ \E ok \in BOOLEAN : qExit' = (IF ok THEN "Ok" ELSE "Err")
    /\ UNCHANGED <<qArgc, qResponse, qResult, qOptions, qSummaryCalls, qReported>>
    /\ UNCHANGED <<sessionVars, scanVars, store, modelsVars, skipVars, storeVars, cliVars,
                   mainVars>>

QueryNext ==
    \/ QueryStart
    \/ QueryEmbeddingsReturn
    \/ QuerySearchReturn
    \/ QuerySummaryReturn

SpecQuery == QueryInit /\ [][QueryNext]_vars

\* ------------------------------------------------ command-line entry points
Entries == {"main", "descriptions", "embeddings", "query", "dump"}

\* the entry points that build a vector store client (QdrantClient::new)
UsesStore(entry) == entry \in {"embeddings", "query"}

\* the argument check of an entry point: args.len() != 2 returns an error,
\* except in dump.rs, where the return is commented out (dump.rs:26-28)
ArgsRejected(entry, args) == entry # "dump" /\ args # 2

\* what processing one listed file may do outside the program
FileEffects(entry) ==
    IF entry = "embeddings"
    THEN { {"metadata_read"},
           {"metadata_read", "probe"},
           {"metadata_read", "probe", "embedding"},
           {"metadata_read", "probe", "embedding", "upsert"} }
    ELSE IF entry = "descriptions"
    THEN { {"metadata_read"},
           {"metadata_read", "description"},
           {"metadata_read", "description", "metadata_write"} }
    ELSE IF entry = "main"
    THEN { {}, {"description"}, {"description", "metadata_write"} }
    ELSE { {"metadata_read"},
           {"metadata_read", "database"},
           {"metadata_read", "database", "metadata_write"} }

CliInit ==
    /\ cEntry \in Entries /\ cArgs \in 1..MaxArgs
    /\ cEnv \in BOOLEAN /\ cDims \in BOOLEAN
    /\ cpc = "start" /\ cExit = "none" /\ cDid = {} /\ cTodo = 0
    /\ IdleSession /\ store = EmptyStore /\ IdleScan
    /\ IdleModels /\ IdleSkip /\ IdleStoreOps /\ IdleQuery /\ IdleMain

\* main up to the call of the service: the collaborators are built and the
\* arguments counted (main.rs:142-148, bin/descriptions.rs:26-38,
\* bin/embeddings.rs:26-38, bin/query.rs:21-31, bin/dump.rs:24-58)
CliStart ==
    /\ cpc = "start"
    /\ IF UsesStore(cEntry) /\ ~cEnv
       THEN \* var(..).expect(..) in QdrantClient::new
            cpc' = "exit" /\ cExit' = "panic"
       ELSE \E built \in BOOLEAN :
            IF cEntry \in {"embeddings", "query", "dump"} /\ ~built
            THEN \* Qdrant::from_url(..).build()? or Client::with_options(..)?
                 cpc' = "exit" /\ cExit' = "Err"
            ELSE IF ArgsRejected(cEntry, cArgs)
            THEN cpc' = "exit" /\ cExit' = "Err"
            ELSE cpc' = (IF cEntry = "query" THEN "query" ELSE "scan")
                 /\ cExit' = cExit
    /\ UNCHANGED <<cEntry, cArgs, cEnv, cDims, cDid, cTodo>>
    /\ UNCHANGED <<sessionVars, scanVars, store, modelsVars, skipVars, storeVars,
                   queryVars, mainVars>>

\* the scan of the root (list_jpeg_files, list_files in main.rs)
CliScan ==
    /\ cpc = "scan"
    /\ cDid' = cDid \cup {"scan"}
    /\ \E ok \in BOOLEAN : \E n \in 0..MaxCliFiles :
         IF ok \/ cEntry = "main"
         THEN cpc' = "files" /\ cTodo' = n /\ cExit' = cExit
         ELSE cpc' = "exit" /\ cTodo' = cTodo /\ cExit' = "Err"
    /\ UNCHANGED <<cEntry, cArgs, cEnv, cDims>>
    /\ UNCHANGED <<sessionVars, scanVars, store, modelsVars, skipVars, storeVars,
                   queryVars, mainVars>>

\* one listed file is processed; its failures are logged. An upsert into a
\* collection of another dimensionality is rejected by the store.
CliFile ==
    /\ cpc = "files" /\ cTodo > 0
    /\ cTodo' = cTodo - 1
    /\ \E effects \in FileEffects(cEntry) :
         cDid' = cDid \cup effects
                      \cup (IF "upsert" \in effects /\ ~cDims
                            THEN {"upsert_rejected"} ELSE {})
    /\ UNCHANGED <<cEntry, cArgs, cEnv, cDims, cpc, cExit>>
    /\ UNCHANGED <<sessionVars, scanVars, store, modelsVars, skipVars, storeVars,
                   queryVars, mainVars>>

\* every file was processed: main returns Ok
CliFinish ==
    /\ cpc = "files" /\ cTodo = 0
    /\ cpc' = "exit" /\ cExit' = "Ok"
    /\ UNCHANGED <<cEntry, cArgs, cEnv, cDims, cDid, cTodo>>
    /\ UNCHANGED <<sessionVars, scanVars, store, modelsVars, skipVars, storeVars,
                   queryVars, mainVars>>

\* the query entry point after its argument check (query.rs:32-60)
CliQuery ==
    /\ cpc = "query"
    /\ cpc' = "exit"
    /\ \E effects \in { {"embedding"}, {"embedding", "search"},
                        {"embedding", "search", "summary"} } :
       \E exit \in {"Ok", "Err"} :
         /\ cDid' = cDid \cup effects
         /\ cExit' = exit
    /\ UNCHANGED <<cEntry, cArgs, cEnv, cDims, cTodo>>
    /\ UNCHANGED <<sessionVars, scanVars, store, modelsVars, skipVars, storeVars,
                   queryVars, mainVars>>

CliNext == CliStart \/ CliScan \/ CliFile \/ CliFinish \/ CliQuery

SpecCli == CliInit /\ [][CliNext]_vars

\* ------------------------------------- the stream-based entry point
\* Semaphore::new(2) (main.rs:153)
SemaphorePermits == 2

\* a semaphore that hands out permits it does not have
CanAcquireAlways(permits) == TRUE

\* semaphore.acquire().await (main.rs:162) completes when a permit is free
CanAcquire(permits) == permits > 0

\* drop(permit) (main.rs:198), also run when the task unwinds
Release(permits) == permits + 1

\* the tasks spawned so far
Spawned == { t \in MainTasks : mTask[t] # "none" }

MainInit ==
    /\ mpc = "listing" /\ mTodo \in 0..MaxMainFiles
    /\ mTask = [t \in MainTasks |-> "none"]
    /\ mPermits = SemaphorePermits /\ mHeld = {} /\ mJoined = {}
    /\ IdleSession /\ store = EmptyStore /\ IdleScan
    /\ IdleModels /\ IdleSkip /\ IdleStoreOps /\ IdleQuery /\ IdleCli

\* files_stream.next() yields Ok(file): a task is spawned for it
\* (main.rs:156-161, 199)
MainSpawn ==
    /\ mpc = "listing" /\ mTodo > 0
    /\ mTodo' = mTodo - 1
    /\ mTask' = [mTask EXCEPT ![Cardinality(Spawned) + 1] = "waiting"]
    /\ UNCHANGED <<mpc, mPermits, mHeld, mJoined>>
    /\ UNCHANGED <<sessionVars, store, scanVars, modelsVars, skipVars, storeVars,
                   queryVars, cliVars>>

\* files_stream.next() yields Err(e), which is logged (main.rs:201), and the
\* stream ends; or the stream is exhausted (main.rs:156)
MainStreamEnd ==
    /\ mpc = "listing"
    /\ mpc' = "joining"
    /\ mTodo' = 0
    /\ UNCHANGED <<mTask, mPermits, mHeld, mJoined>>
    /\ UNCHANGED <<sessionVars, store, scanVars, modelsVars, skipVars, storeVars,
                   queryVars, cliVars>>

\* the task gets its permit and calls extract_image_description
\* (main.rs:162-163)
TaskAcquire(t) ==
    /\ mpc \in {"listing", "joining"}
    /\ mTask[t] = "waiting"
    /\ CanAcquire(mPermits)
    /\ mPermits' = mPermits - 1
    /\ mHeld' = mHeld \cup {t}
    /\ mTask' = [mTask EXCEPT ![t] = "describing"]
    /\ UNCHANGED <<mpc, mTodo, mJoined>>
    /\ UNCHANGED <<sessionVars, store, scanVars, modelsVars, skipVars, storeVars,
                   queryVars, cliVars>>

\* extract_image_description returns (main.rs:163-197): with a description,
\* which is then stored, or with an error, which is logged before the permit
\* is dropped
TaskDescribed(t) ==
    /\ mpc \in {"listing", "joining"}
    /\ mTask[t] = "describing"
    /\ \E ok \in BOOLEAN :
         IF ok
         THEN /\ mTask' = [mTask EXCEPT ![t] = "storing"]
              /\ UNCHANGED <<mPermits, mHeld>>
         ELSE /\ mTask' = [mTask EXCEPT ![t] = "finished"]
              /\ mPermits' = Release(mPermits)
              /\ mHeld' = mHeld \ {t}
    /\ UNCHANGED <<mpc, mTodo, mJoined>>
    /\ UNCHANGED <<sessionVars, store, scanVars, modelsVars, skipVars, storeVars,
                   queryVars, cliVars>>

\* store_description_xmp and store_description_exif are done, their errors
\* logged, and the permit is dropped (main.rs:165-198)
TaskStored(t) ==
    /\ mpc \in {"listing", "joining"}
    /\ mTask[t] = "storing"
    /\ mTask' = [mTask EXCEPT ![t] = "finished"]
    /\ mPermits' = Release(mPermits)
    /\ mHeld' = mHeld \ {t}
    /\ UNCHANGED <<mpc, mTodo, mJoined>>
    /\ UNCHANGED <<sessionVars, store, scanVars, modelsVars, skipVars, storeVars,
                   queryVars, cliVars>>

\* the task panics while it holds its permit: the unwinding drops the permit
\* and the JoinHandle completes with an error
TaskPanic(t) ==
    /\ mpc \in {"listing", "joining"}
    /\ mTask[t] \in {"describing", "storing"}
    /\ mTask' = [mTask EXCEPT ![t] = "panicked"]
    /\ mPermits' = Release(mPermits)
    /\ mHeld' = mHeld \ {t}
    /\ UNCHANGED <<mpc, mTodo, mJoined>>
    /\ UNCHANGED <<sessionVars, store, scanVars, modelsVars, skipVars, storeVars,
                   queryVars, cliVars>>

\* tasks.next() yields the result of a task that has ended (main.rs:206-215)
MainJoin(t) ==
    /\ mpc = "joining"
    /\ t \notin mJoined
    /\ mTask[t] \in {"finished", "panicked"}
    /\ mJoined' = mJoined \cup {t}
    /\ UNCHANGED <<mpc, mTodo, mTask, mPermits, mHeld>>
    /\ UNCHANGED <<sessionVars, store, scanVars, modelsVars, skipVars, storeVars,
                   queryVars, cliVars>>

\* tasks.next() yields None: every JoinHandle pushed has completed; Ok(())
\* (main.rs:206, 217)
MainReturn ==
    /\ mpc = "joining"
    /\ mJoined = Spawned
    /\ mpc' = "exit"
    /\ UNCHANGED <<mTodo, mTask, mPermits, mHeld, mJoined>>
    /\ UNCHANGED <<sessionVars, store, scanVars, modelsVars, skipVars, storeVars,
                   queryVars, cliVars>>

MainNext ==
    \/ MainSpawn
    \/ MainStreamEnd
    \/ \E t \in MainTasks : TaskAcquire(t)
    \/ \E t \in MainTasks : TaskDescribed(t)
    \/ \E t \in MainTasks : TaskStored(t)
    \/ \E t \in MainTasks : TaskPanic(t)
    \/ \E t \in MainTasks : MainJoin(t)
    \/ MainReturn

SpecMain == MainInit /\ [][MainNext]_vars

\* ================================================================== claims
PointsOf(st) == IF IsSome(st[COLLECTION_NAME]) THEN Unwrap(st[COLLECTION_NAME]) ELSE <<>>
CountId(points, id) == Cardinality({ i \in 1..Len(points) : points[i].id = id })
EmptyCollection == create_collection(EmptyStore, COLLECTION_NAME)
UpsertInFlight == \E f \in Files : pc[f] = "upsert"

\* C1 as stated: when generate has returned Ok and is run again with no
\* description changed in between, the second run issues no upsert and the
\* store stays as the first run left it.
C1_SecondRunNoUpsertAsStated ==
    (service = "embeddings" /\ run >= 2 /\ prev.result = "Ok" /\ ~prev.edited)
        => (~UpsertInFlight /\ store = snapshot)

\* C1 amended: when the first run returned Ok without any failed collaborator
\* call and no description was changed in between, the second run issues no
\* upsert and the store stays as the first run left it.
C1_SecondRunNoUpsert ==
    (service = "embeddings" /\ run >= 2 /\ prev.result = "Ok" /\ ~prev.failed
        /\ ~prev.edited)
        => (~UpsertInFlight /\ store = snapshot)

\* C1 witness: a second run, after a clean first run that indexed two files,
\* has returned after probing them.
C1_Witness ==
    /\ service = "embeddings" /\ run = 2 /\ phase = "returned" /\ result = "Ok"
    /\ prev.result = "Ok" /\ ~prev.failed /\ ~prev.edited
    /\ ~failed
    /\ Len(PointsOf(snapshot)) >= 2

\* C2 as stated: after a run without failed collaborator call that started
\* from an empty collection, the store holds exactly one point for every file
\* with a stored description and none for the others; a second run after it
\* adds no point.
C2_OnePointPerDescribedFile ==
    /\ (service = "embeddings" /\ run >= 1 /\ phase \in {"returned", "crashed"}
          /\ ~failed /\ ~edited /\ snapshot = EmptyCollection)
       => /\ \A f \in Files :
               CountId(PointsOf(store), Hash(f)) = (IF IsSome(xmp[f]) THEN 1 ELSE 0)
          /\ Len(PointsOf(store)) = Cardinality({ f \in Files : IsSome(xmp[f]) })
    /\ (service = "embeddings" /\ run >= 2 /\ prev.result = "Ok" /\ ~prev.failed
          /\ ~prev.edited)
       => Len(PointsOf(store)) = Len(PointsOf(snapshot))

\* C3: can_be_skipped is false without description, false when a maximal run
\* of word characters of the description is one of the four tokens in any
\* letter case, and true for every other description.
LowerSeq(w) == [k \in 1..Len(w) |-> ToLower(w[k])]
MaximalWord(s, i, j) ==
    /\ i <= j
    /\ \A k \in i..j : IsWordChar(s[k])
    /\ (i = 1 \/ ~IsWordChar(s[i - 1]))
    /\ (j = Len(s) \/ ~IsWordChar(s[j + 1]))
HasKeywordWord(s) ==
    \E i \in 1..Len(s) : \E j \in i..Len(s) :
        MaximalWord(s, i, j) /\ LowerSeq(SubSeq(s, i, j)) \in Keywords
C3_SkipPolicy ==
    IsSome(sResult) =>
        Unwrap(sResult) = (IsSome(sDesc) /\ ~HasKeywordWord(Unwrap(sDesc)))

\* C3 witness: a description that holds a token only inside a longer word
\* ("Photos") was judged skippable.
C3_Witness ==
    /\ sResult = Some(TRUE)
    /\ IsSome(sDesc)
    /\ \E i \in 1..Len(Unwrap(sDesc)) : \E k \in Keywords :
           KeywordAt(Unwrap(sDesc), i, k)

\* C4: in the query path the list in use after the sort holds exactly the
\* results the search returned, its numeric scores never increase from one
\* position to a later one, no result without score precedes one with a
\* score, and the descriptions handed on are those of the sorted list.
IsNumber(score) == IsSome(score) /\ Unwrap(score) # NaN
C4_SortByScore ==
    (IsSome(qResponse) /\ qExit # "panic") =>
        /\ Len(qResult) = Len(Unwrap(qResponse))
        /\ { qResult[i] : i \in 1..Len(qResult) }
             = { Unwrap(qResponse)[i] : i \in 1..Len(Unwrap(qResponse)) }
        /\ \A i \in 1..Len(qResult) : \A j \in 1..Len(qResult) :
             (i < j) =>
                /\ (IsNumber(qResult[i].score) /\ IsNumber(qResult[j].score))
                      => Unwrap(qResult[i].score) >= Unwrap(qResult[j].score)
                /\ IsSome(qResult[j].score) => IsSome(qResult[i].score)
        /\ (qSummaryCalls > 0) =>
             /\ Len(qOptions) = Len(qResult)
             /\ \A i \in 1..Len(qResult) : qOptions[i] = DescriptionOf(qResult[i])

\* C4 witness: a response of three results that came in another order than
\* by score, with a result without score, was sorted and handed on.
C4_Witness ==
    /\ IsSome(qResponse) /\ qSummaryCalls > 0
    /\ Len(qResult) = 3
    /\ qResult # Unwrap(qResponse)
    /\ ~IsSome(qResult[3].score)
    /\ IsNumber(qResult[1].score) /\ IsNumber(qResult[2].score)
    /\ Unwrap(qResult[1].score) > Unwrap(qResult[2].score)

\* C5: after limit_results(t) no result without score and no result with a
\* score below t is left, every result with a score above t is left, and
\* the results left are in the order they had.
C5_LimitResults ==
    (mOp = "limited") =>
        /\ \A i \in 1..Len(mInput) :
             LET o == mInput[i]
                 kept == \E k \in 1..Len(mList) : mList[k] = o
             IN  /\ ~IsSome(o.score) => ~kept
                 /\ (IsNumber(o.score) /\ mThreshold # NaN
                       /\ Unwrap(o.score) < mThreshold) => ~kept
                 /\ (IsNumber(o.score) /\ mThreshold # NaN
                       /\ Unwrap(o.score) > mThreshold) => kept
        /\ \A k \in 1..Len(mList) : \E i \in 1..Len(mInput) : mInput[i] = mList[k]
        /\ \A k \in 1..Len(mList) : \A l \in 1..Len(mList) :
             (k < l) => mList[k].id < mList[l].id

\* C5 witness: of four results the one without score and the one below the
\* threshold were removed, and the two above it were kept in the order they
\* came in, which is not the order of their scores.
C5_Witness ==
    /\ mOp = "limited"
    /\ Len(mInput) = 4 /\ Len(mList) = 2
    /\ \E i \in 1..4 : ~IsSome(mInput[i].score)
    /\ \E i \in 1..4 : IsNumber(mInput[i].score) /\ mThreshold # NaN
                         /\ Unwrap(mInput[i].score) < mThreshold
    /\ IsNumber(mList[1].score) /\ IsNumber(mList[2].score)
    /\ Unwrap(mList[1].score) < Unwrap(mList[2].score)

\* C6: when the search returned no result the program reports it and exits
\* with Ok without calling process_search_result, and process_search_result
\* is only ever called with a non-empty list of descriptions.
C6_EmptyResult ==
    /\ (qResponse = Some(<<>>)) =>
          (qReported /\ qExit = "Ok" /\ qSummaryCalls = 0)
    /\ qReported => qSummaryCalls = 0
    /\ (qSummaryCalls > 0) => qOptions # <<>>

\* C6 witness: a search that returned nothing ended the program.
C6_Witness == qResponse = Some(<<>>) /\ qpc = "exit" /\ qReported

\* C7: in an ingestion run whose scan succeeded a failing call of one file
\* leaves the run running and the other files' tasks and the queue as they
\* are; generate returns Err only when the scan failed, and when it returns
\* Ok every scanned file has been processed.
C7_FailureStep ==
    (service = "embeddings" /\ phase = "running" /\ ~failed /\ failed')
        => /\ phase' = "running"
           /\ \E f \in Files :
                /\ pc'[f] = "done"
                /\ \A g \in Files \ {f} : pc'[g] = pc[g]
                /\ (queue' = queue \/ (queue # <<>> /\ queue' = Tail(queue)))
C7_Returned ==
    (service = "embeddings" /\ phase = "returned") =>
        /\ (result = "Err") => (progress = 0 /\ \A f \in Files : pc[f] = "todo")
        /\ (result = "Ok") => (progress = NFiles /\ \A f \in Files : pc[f] = "done")
C7_FailureIsolation == [][C7_FailureStep]_vars /\ []C7_Returned

\* C7 witness: a run returned Ok although a call failed, and another file of
\* that run was indexed.
C7_Witness ==
    /\ service = "embeddings" /\ run = 1 /\ phase = "returned" /\ result = "Ok"
    /\ failed
    /\ Len(PointsOf(store)) >= 1
    /\ \A f \in Files : pc[f] = "done"

C9_BoundedFanOut == Cardinality(InFlight) <= MAX_CONCURRENT_TASKS

\* C9 witness: the limit is reached while files are still waiting.
C9_Witness ==
    /\ Cardinality(InFlight) = MAX_CONCURRENT_TASKS
    /\ queue # <<>>
    /\ phase = "running"

\* C10: an existing collection holds at most one point per id, and
\* find_by_id returns for an id the payload of its latest upsert (nothing
\* when the id was not upserted since the collection was created).
C10_UpsertReplaces ==
    \A name \in Names : IsSome(store[name]) =>
        /\ \A id \in 1..MaxIds : CountId(Unwrap(store[name]), id) <= 1
        /\ \A id \in 1..MaxIds :
             LET hit == find_by_id(store, name, id)
                 last == lastPayload[name][id].payload
             IN  IF IsSome(last)
                 THEN IsSome(hit) /\ Unwrap(hit).payload = Unwrap(last)
                 ELSE ~IsSome(hit)

\* C10 witness: an id was upserted twice with different payloads and then
\* looked up.
C10_Witness ==
    \E name \in Names : \E id \in 1..MaxIds :
        /\ IsSome(store[name])
        /\ lastPayload[name][id].n >= 2
        /\ found = Some([name |-> name, hit |-> find_by_id(store, name, id)])
        /\ IsSome(find_by_id(store, name, id))
        /\ Unwrap(find_by_id(store, name, id)).payload.description = Some(TPhoto)

\* C11: every upsert of an ingestion run writes for one file in flight a point
\* whose id is the hash of that file's path, whose embedding is the one the
\* provider gives for that file's description and whose payload holds that
\* file's path and description, and leaves the points of other ids as they
\* are; every stored point pairs one file's id with that file's path and
\* with the embedding of the description stored with it.
C11_UpsertStep ==
    (service = "embeddings" /\ store' # store) =>
        \E f \in Files :
            LET old == PointsOf(store)
                new == PointsOf(store')
            IN  /\ pc[f] = "upsert" /\ IsSome(xmp[f])
                /\ CountId(new, Hash(f)) = 1
                /\ \E i \in 1..Len(new) :
                     /\ new[i].id = Hash(f)
                     /\ new[i].embedding = Embedding(Unwrap(xmp[f]))
                     /\ new[i].payload.path = Some(Display(f))
                     /\ new[i].payload.description = xmp[f]
                /\ \A i \in 1..Len(old) :
                     old[i].id # Hash(f) => \E j \in 1..Len(new) : new[j] = old[i]
                /\ \A j \in 1..Len(new) :
                     new[j].id # Hash(f) => \E i \in 1..Len(old) : old[i] = new[j]
C11_Stored ==
    (service = "embeddings") =>
        \A i \in 1..Len(PointsOf(store)) :
            LET point == PointsOf(store)[i]
            IN  \E f \in Files \cup {FormerFile} :
                    /\ point.id = Hash(f)
                    /\ point.payload.path = Some(Display(f))
                    /\ IsSome(point.payload.description)
                    /\ point.embedding = Embedding(Unwrap(point.payload.description))
C11_Pairing == [][C11_UpsertStep]_vars /\ []C11_Stored

\* C11 witness: file 1 is indexed while the upserts of two other files with
\* different embeddings are in flight at the same time.
C11_Witness ==
    /\ service = "embeddings"
    /\ CountId(PointsOf(store), Hash(1)) = 1
    /\ pc[2] = "upsert" /\ pc[3] = "upsert"
    /\ temb[2] # temb[3]
    /\ temb[2] # NoEmbedding /\ temb[3] # NoEmbedding

\* C13: when a directory or an entry under the root cannot be read, the scan
\* returns an error and no file, and generate of either service returns Err
\* with no file taken up: no task started, the progress at 0, the metadata
\* and the vector store as they were.
C13_ScanStep ==
    (IsSome(fault') /\ run' # run) => (xmp' = xmp /\ store' = store)
C13_ScanFailed ==
    IsSome(fault) =>
        /\ IsSome(listed)
        /\ Unwrap(listed).err /\ Unwrap(listed).files = <<>>
        /\ phase = "returned" /\ result = "Err"
        /\ progress = 0 /\ queue = <<>>
        /\ \A f \in Files : pc[f] = "todo"
        /\ store = snapshot
C13_ScanErrorAborts == [][C13_ScanStep]_vars /\ []C13_ScanFailed

\* C13 witness: the second ingestion run over an indexed corpus met an
\* unreadable entry after it had listed other files, and returned Err.
C13_Witness ==
    /\ service = "embeddings" /\ run = 2
    /\ fault = Some(EntryFault(NFiles))
    /\ phase = "returned" /\ result = "Err"
    /\ Len(PointsOf(store)) >= 1

\* C17: when DescriptionService.generate returns Ok, the count it returns
\* (the position of the progress bar) is the number of files the scan
\* listed, whatever happened to the files.
C17_ProgressCount ==
    (service = "descriptions" /\ phase = "returned" /\ result = "Ok") =>
        /\ IsSome(listed)
        /\ progress = Len(Unwrap(listed).files)
        /\ progress = Cardinality({ e \in 1..Len(tree) :
                                      tree[e].kind = "file" /\ is_jpeg(tree[e].name) })

\* C17 witness: a description run returned the full count although one file
\* was skipped, one failed and one was written.
C17_Witness ==
    /\ service = "descriptions" /\ phase = "returned" /\ result = "Ok"
    /\ progress = NFiles
    /\ failed
    /\ \E f \in Files : pc[f] = "skipped"
    /\ \E f \in Files : pc[f] = "done"
    /\ \E f \in Files : pc[f] = "written"

\* the sentinel the specification names for a missing parent name
Unknown == <<"U","n","k","n","o","w","n">>

\* C18 as stated: an ingestion run against an existing collection does not
\* crash, and the point of a file whose parent directory has no name has the
\* folder "Unknown".
C18_FolderSentinel ==
    (service = "embeddings" /\ IsSome(store[COLLECTION_NAME])) =>
        /\ phase # "crashed"
        /\ \A f \in Files : \A i \in 1..Len(PointsOf(store)) :
             (PointsOf(store)[i].id = Hash(f)
                 /\ ~IsSome(ParentFileName(f, rootNameless)))
               => PointsOf(store)[i].payload.folder = Some(Unknown)

\* C19: in a description run a file whose description was written (it was
\* not skipped, its image was encoded, the model answered and the write
\* succeeded) has as stored description the text the model returned for it.
C19_DescriptionWritten ==
    (service = "descriptions") =>
        \A f \in Files : pc[f] = "written" => xmp[f] = Some(tdesc[f])

\* C19 witness: a run returned in which one file was skipped and another,
\* which had a generic description or none, got the text of the model.
C19_Witness ==
    /\ service = "descriptions" /\ phase = "returned" /\ result = "Ok"
    /\ \E f \in Files : pc[f] = "skipped"
    /\ \E f \in Files : pc[f] = "written" /\ xmp[f] = Some(TCat)
    /\ \E f \in Files : pc[f] = "written" /\ xmp[f] = Some(TPhoto)

\* C12 amended: a scan that meets nothing unreadable succeeds, and a
\* successful scan returns exactly the paths under the root, through
\* directories and links to directories at any depth, of the entries that
\* are no directory and whose name ends in a dot and jpg or jpeg in any
\* letter case after a non-empty stem; no path is returned twice (a file
\* that several paths lead to is returned once for each of them).
HasJpegExtension(name) ==
    \E k \in {3, 4} :
        /\ Len(name) >= k + 2
        /\ name[Len(name) - k] = "."
        /\ LET ext == SubSeq(name, Len(name) - k + 1, Len(name))
           IN  [i \in 1..k |-> ToLower(ext[i])] \in JpegExtensions
RECURSIVE JpegPathsUnder(_, _, _)
JpegPathsUnder(t, d, prefix) ==
    UNION { LET path == Append(prefix, e)
            IN  IF is_dir(t, path) THEN JpegPathsUnder(t, Resolve(t, e), path)
                ELSE IF HasJpegExtension(t[e].name) THEN {path}
                ELSE {} : e \in { x \in 1..Len(t) : t[x].parent = d } }
\* C12 as stated: a successful scan returns files with a JPEG extension
\* only, and every file with a JPEG extension under the root exactly once.
C12_EachFileOnce ==
    (IsSome(listed) /\ ~Unwrap(listed).err) =>
        LET files == Unwrap(listed).files
        IN  /\ \A i \in 1..Len(files) :
                 LET e == files[i][Len(files[i])]
                 IN  tree[e].kind = "file" /\ HasJpegExtension(tree[e].name)
            /\ \A e \in 1..Len(tree) :
                 (tree[e].kind = "file" /\ HasJpegExtension(tree[e].name)) =>
                     Cardinality({ i \in 1..Len(files) :
                                     files[i][Len(files[i])] = e }) = 1

C12_ListJpegFiles ==
    IsSome(listed) =>
        LET r == Unwrap(listed)
        IN  /\ (fault = None) => ~r.err
            /\ ~r.err =>
                 /\ { r.files[i] : i \in 1..Len(r.files) } = JpegPathsUnder(tree, 0, <<>>)
                 /\ \A i \in 1..Len(r.files) : \A j \in 1..Len(r.files) :
                      r.files[i] = r.files[j] => i = j

\* C12 witness: a scan returned a file of the root and a file with an
\* upper-case extension from a directory below it, and left out an entry
\* with another extension.
C12_Witness ==
    /\ IsSome(listed) /\ ~Unwrap(listed).err
    /\ \E i \in 1..Len(Unwrap(listed).files) : Len(Unwrap(listed).files[i]) = 1
    /\ \E i \in 1..Len(Unwrap(listed).files) :
         LET path == Unwrap(listed).files[i]
         IN  /\ Len(path) = 2
             /\ tree[path[1]].kind = "dir"
             /\ tree[path[2]].name = <<"b",".","J","p","E","G">>
    /\ Len(tree) = 3 /\ Len(Unwrap(listed).files) = 2

\* C14 as stated: an entry point started with an argument vector other than
\* the program name and one argument ends with an error or a panic and has
\* scanned nothing, touched no metadata and called no remote service.
C14_WrongArgsFailFast ==
    (cArgs # 2 /\ cpc \notin {"off", "start"}) =>
        (cpc = "exit" /\ cExit \in {"Err", "panic"} /\ cDid = {})

\* C15 as stated: when an environment value of the vector store client is
\* missing or the collection has another dimensionality than the provider's
\* vectors, the ingestion entry point ends at startup with an error or a
\* panic and has scanned no file, read no metadata and probed or upserted
\* no point.
C15_ConfigErrorAtStartup ==
    (cEntry = "embeddings" /\ (~cEnv \/ ~cDims) /\ cpc \notin {"off", "start"}) =>
        (cpc = "exit" /\ cExit \in {"Err", "panic"} /\ cDid = {})

\* C16: after an upsert_points call of the store double or of the Qdrant
\* adapter that returned an error (or panicked) the store is as it was before
\* the call, and after one that returned success every point of the batch is
\* in the collection, each id with the embedding and payload of the last
\* input of that id.
C16_UpsertAllOrNothing ==
    IsSome(upsertCall) =>
        LET c == Unwrap(upsertCall)
        IN  /\ (c.result # "Ok") => store = c.before
            /\ (c.result = "Ok") =>
                 /\ IsSome(store[c.name])
                 /\ \A i \in 1..Len(c.inputs) :
                      LET last == CHOOSE k \in 1..Len(c.inputs) :
                                    /\ c.inputs[k].id = c.inputs[i].id
                                    /\ \A l \in 1..Len(c.inputs) :
                                         c.inputs[l].id = c.inputs[i].id => l <= k
                      IN  \E j \in 1..Len(Unwrap(store[c.name])) :
                              Unwrap(store[c.name])[j] = c.inputs[last]

\* C16 witness: a batch of two points of which the second did not convert
\* was refused by the adapter while the collection held a point.
C16_Witness ==
    /\ IsSome(upsertCall)
    /\ Unwrap(upsertCall).result = "Err"
    /\ Len(Unwrap(upsertCall).inputs) = 2
    /\ Unwrap(upsertCall).inputs[1].id # Unwrap(upsertCall).inputs[2].id
    /\ IsSome(store[Unwrap(upsertCall).name])
    /\ Len(Unwrap(store[Unwrap(upsertCall).name])) = 1

\* C20 as stated: limit_results(t) removes a result that has a score only
\* when the score is below t; a result whose score equals t is kept.
C20_EqualScoreKept ==
    (mOp = "limited" /\ mThreshold # NaN) =>
        \A i \in 1..Len(mInput) :
            (IsNumber(mInput[i].score) /\ Unwrap(mInput[i].score) >= mThreshold)
                => \E k \in 1..Len(mList) : mList[k] = mInput[i]

\* the point of file f in a store (no point: None)
PointOf(st, f) ==
    IF \E i \in 1..Len(PointsOf(st)) : PointsOf(st)[i].id = Hash(f)
    THEN Some(PointsOf(st)[CHOOSE i \in 1..Len(PointsOf(st)) :
                               PointsOf(st)[i].id = Hash(f)])
    ELSE None

\* the store holds a point of file f whose description contains text
HoldsContaining(st, f, text) ==
    \E i \in 1..Len(PointsOf(st)) :
        /\ PointsOf(st)[i].id = Hash(f)
        /\ IsSome(PointsOf(st)[i].payload.description)
        /\ Contains(Unwrap(PointsOf(st)[i].payload.description), text)

Issued(f, call) == call \in calls'[f] /\ call \notin calls[f]

\* C21: in an ingestion run the probe is issued for a file only if it has a
\* stored description, the embedding request only after the probe and only if
\* the store holds no point of the file whose description contains the stored
\* one, and the upsert only after the embedding request; a file without
\* stored description has no probe, embedding request or upsert, and a file
\* whose point already holds its description has no embedding request and no
\* upsert.
C21_IssueStep ==
    (service = "embeddings") =>
        \A f \in Files :
            /\ Issued(f, "find_by_id") => IsSome(xmp[f])
            /\ Issued(f, "get_embedding") =>
                 /\ IsSome(xmp[f])
                 /\ "find_by_id" \in calls[f]
                 /\ ~HoldsContaining(store, f, Unwrap(xmp[f]))
            /\ Issued(f, "upsert_points") =>
                 /\ IsSome(xmp[f])
                 /\ "get_embedding" \in calls[f]
                 /\ ~HoldsContaining(store, f, Unwrap(xmp[f]))
C21_Calls ==
    (service = "embeddings" /\ ~edited) =>
        \A f \in Files :
            /\ ~IsSome(xmp[f]) => calls[f] \subseteq {"get_description"}
            /\ (IsSome(xmp[f]) /\ HoldsContaining(snapshot, f, Unwrap(xmp[f])))
                 => calls[f] \subseteq {"get_description", "find_by_id"}
C21_ProbeGuards == [][C21_IssueStep]_vars /\ []C21_Calls

\* C21 witness: a second run returned in which a file without description
\* was only read, a file indexed by the first run was probed and left alone,
\* and a file the first run failed to index was upserted.
C21_Witness ==
    /\ service = "embeddings" /\ run = 2 /\ phase = "returned" /\ ~edited
    /\ \E f \in Files : ~IsSome(xmp[f]) /\ calls[f] = {"get_description"}
    /\ \E f \in Files :
         /\ IsSome(PointOf(snapshot, f))
         /\ calls[f] = {"get_description", "find_by_id"} /\ outcome[f] = "Ok"
    /\ \E f \in Files :
         /\ "upsert_points" \in calls[f] /\ outcome[f] = "Ok"
         /\ IsSome(PointOf(store, f)) /\ ~IsSome(PointOf(snapshot, f))

\* C22 as stated: when an ingestion run has returned Ok without a failed
\* collaborator call, every file with a stored description has a point, and
\* the description in its payload is the file's stored description, also
\* when the description was changed before the run.
C22_Synchronized ==
    (service = "embeddings" /\ phase = "returned" /\ result = "Ok" /\ ~failed
        /\ ~edited) =>
        \A f \in Files :
            IsSome(xmp[f]) =>
                /\ IsSome(PointOf(store, f))
                /\ Unwrap(PointOf(store, f)).payload.description = xmp[f]

\* C23: in a description run a file that is skipped has a stored description
\* that is not generic, and the only call made for it is the read of that
\* description: its persons are not read, its image is not encoded, the model
\* is not called and its metadata is not written; a step that writes a
\* file's metadata belongs to a file that was not skipped.
C23_WriteStep ==
    (service = "descriptions") =>
        \A f \in Files :
            xmp'[f] # xmp[f] =>
                /\ pc[f] = "describe"
                /\ "get_image_description" \in calls[f]
C23_Skipped ==
    (service = "descriptions") =>
        \A f \in Files :
            pc[f] = "skipped" =>
                /\ IsSome(xmp[f]) /\ ~ReIsMatch(Unwrap(xmp[f]))
                /\ xmp[f] = xmpBefore[f]
                /\ calls[f] = {"get_description"}
C23_SkipFirst == [][C23_WriteStep]_vars /\ []C23_Skipped

\* C23 witness: a description run returned in which one file was skipped
\* while the model was called and the metadata written for another.
C23_Witness ==
    /\ service = "descriptions" /\ phase = "returned"
    /\ \E f \in Files : pc[f] = "skipped" /\ xmp[f] = Some(TCat)
    /\ \E f \in Files :
         /\ pc[f] = "written"
         /\ {"get_persons", "resize_and_base64encode_image",
             "get_image_description", "set_description"} \subseteq calls[f]

IdsOf(st) == { PointsOf(st)[i].id : i \in 1..Len(PointsOf(st)) }
ScannedIds == { Hash(f) : f \in Files }

\* C24: a step of an ingestion session that changes the vector store creates
\* and deletes no collection, leaves every id that had a point with a point,
\* and leaves the points of ids that belong to no scanned file as they are;
\* at any moment of a run the collection exists if and only if it did when
\* the run began and holds a point for every id that had one then.
C24_StoreStep ==
    (service = "embeddings" /\ store' # store) =>
        /\ \A n \in Names : IsSome(store'[n]) = IsSome(store[n])
        /\ \A n \in Names \ {COLLECTION_NAME} : store'[n] = store[n]
        /\ IdsOf(store) \subseteq IdsOf(store')
        /\ \A i \in 1..Len(PointsOf(store)) :
             PointsOf(store)[i].id \notin ScannedIds =>
                 \E j \in 1..Len(PointsOf(store')) :
                     PointsOf(store')[j] = PointsOf(store)[i]
        /\ \A j \in 1..Len(PointsOf(store')) :
             PointsOf(store')[j].id \notin ScannedIds =>
                 \E i \in 1..Len(PointsOf(store)) :
                     PointsOf(store)[i] = PointsOf(store')[j]
C24_SinceRunBegan ==
    (service = "embeddings") =>
        /\ \A n \in Names : IsSome(store[n]) = IsSome(snapshot[n])
        /\ IdsOf(snapshot) \subseteq IdsOf(store)
        /\ PointOf(store, FormerFile) = PointOf(snapshot, FormerFile)
C24_NoRemoval == [][C24_StoreStep]_vars /\ []C24_SinceRunBegan

\* C24 witness: a run over a collection that held the point of a former file
\* returned after it had added the points of two scanned files.
C24_Witness ==
    /\ service = "embeddings" /\ phase = "returned" /\ result = "Ok"
    /\ PointsOf(snapshot) = <<FormerPoint>>
    /\ PointOf(store, FormerFile) = Some(FormerPoint)
    /\ Cardinality(IdsOf(store) \cap ScannedIds) >= 2

\* C25: the step of an ingestion run in which the probe, the embedding
\* request or the upsert of a file fails leaves the vector store as it is,
\* and a file whose processing failed has in the store exactly the point it
\* had when the run began, or none if it had none.
C25_FailureStep ==
    (service = "embeddings"
        /\ \E f \in Files : outcome'[f] = "Err" /\ outcome[f] # "Err")
        => store' = store
C25_Failed ==
    (service = "embeddings") =>
        \A f \in Files :
            outcome[f] = "Err" =>
                /\ PointOf(store, f) = PointOf(snapshot, f)
                /\ CountId(PointsOf(store), Hash(f))
                     = CountId(PointsOf(snapshot), Hash(f))
C25_FailureKeepsStore == [][C25_FailureStep]_vars /\ []C25_Failed

\* C25 witness: in a second run the upsert of a file without point failed,
\* the probe of a file indexed by the first run failed, and a third file
\* was indexed.
C25_Witness ==
    /\ service = "embeddings" /\ run = 2
    /\ \E f \in Files :
         /\ outcome[f] = "Err" /\ "upsert_points" \in calls[f]
         /\ ~IsSome(PointOf(store, f))
    /\ \E f \in Files :
         /\ outcome[f] = "Err" /\ calls[f] = {"get_description", "find_by_id"}
         /\ IsSome(PointOf(store, f))
    /\ \E f \in Files :
         /\ outcome[f] = "Ok" /\ "upsert_points" \in calls[f]
         /\ IsSome(PointOf(store, f)) /\ ~IsSome(PointOf(snapshot, f))

\* a stored description the skip policy leaves alone: one that is not generic
Specific(description) == IsSome(description) /\ ~ReIsMatch(Unwrap(description))

\* C27 as stated: in a description run set_description is called for a file
\* only if the file had no stored description or a generic one when the run
\* began, also when the read of the stored description failed.
C27_NoOverwrite ==
    (service = "descriptions") =>
        \A f \in Files :
            "set_description" \in calls[f] => ~Specific(xmpBefore[f])

C29_CollectionReady ==
    (service = "embeddings" /\ ~rootNameless) =>
        /\ (\E f \in Files : {"find_by_id", "upsert_points"} \cap calls[f] # {})
              => IsSome(store[COLLECTION_NAME])
        /\ phase # "crashed"

\* C26: a call of list_jpeg_files returns, a list or an error, for every
\* tree, also one with links to a directory above them; no path of a
\* directory is read twice, every path read goes through at most MaxSymlinks
\* links and is no longer than the tree allows, and what the call returns
\* is what list_jpeg_files gives for the tree.
C26_Visits ==
    /\ \A i \in 1..Len(visits) : \A j \in 1..Len(visits) :
         visits[i] = visits[j] => i = j
    /\ \A i \in 1..Len(visits) :
         /\ LinksIn(tree, visits[i]) <= MaxSymlinks
         /\ Len(visits[i]) <= (MaxSymlinks + 1) * Len(tree)
    /\ Len(stack) <= (MaxSymlinks + 1) * Len(tree) + 1
C26_Returned ==
    (visits # <<>> /\ IsSome(listed)) =>
        /\ stack = <<>>
        /\ Unwrap(listed) = list_jpeg_files(tree, fault)
C26_ScanTerminates == <>(IsSome(listed)) /\ []C26_Visits /\ []C26_Returned

\* C26 witness: the scan of a tree in which a directory holds a link to the
\* root returned a list after it had read the root twice and the directory
\* twice.
C26_Witness ==
    /\ visits # <<>> /\ IsSome(listed) /\ ~Unwrap(listed).err
    /\ \E l \in 1..Len(tree) :
         /\ tree[l].kind = "link" /\ tree[l].target = 0 /\ tree[l].parent # 0
         /\ Cardinality({ i \in 1..Len(visits) :
                            visits[i] # <<>>
                            /\ visits[i][Len(visits[i])] = l }) = 1
         /\ Cardinality({ i \in 1..Len(visits) :
                            visits[i] # <<>>
                            /\ visits[i][Len(visits[i])] = tree[l].parent }) = 2
    /\ Len(Unwrap(listed).files) >= 2

\* the tasks that hold a permit and work on their file
Busy == { t \in MainTasks : mTask[t] \in {"describing", "storing"} }

\* C30: in main.rs at most 2 tasks are describing or storing at any moment,
\* the tasks that hold a permit are those at work (a task that ended, also by
\* a panic, holds none), the permits handed out and the permits available
\* are 2 together, and when main has returned every spawned task has ended,
\* none waits for a permit and every permit is back.
C30_Semaphore ==
    (mpc # "off") =>
        /\ Cardinality(Busy) <= 2
        /\ mHeld = Busy
        /\ mPermits >= 0
        /\ mPermits + Cardinality(mHeld) = 2
        /\ (mpc = "exit") =>
             /\ \A t \in Spawned : mTask[t] \in {"finished", "panicked"}
             /\ mTodo = 0
             /\ mPermits = 2

\* C30 witness: three tasks were spawned; while main waits for them, two are
\* at work with the two permits and the third waits for one.
C30_Witness ==
    /\ mpc = "joining"
    /\ Cardinality(Spawned) = 3
    /\ Cardinality(Busy) = 2 /\ mPermits = 0
    /\ \E t \in MainTasks : mTask[t] = "waiting"

====
